---- MODULE Spec2Model ----
(***************************************************************************)
(* Model of the bulk mail dispatch scripts.                                *)
(*                                                                         *)
(*   batch_sender.py  NewsletterBatchSender: the sequential sender with a  *)
(*                    progress file (save_progress / load_progress) and    *)
(*                    resume.                                              *)
(*   send.py          prepare_and_send_batches / send_email_task: the      *)
(*                    threaded per-domain dispatcher.                      *)
(*   calculate_delay  of NewsletterBatchSender, for any DELIVERY_SETTINGS. *)
(*   verify.py        EmailVerifier.verify_smtp: the probe of an address   *)
(*                    and the classification of the server's reply.        *)
(*                                                                         *)
(* One behaviour of the model is one launch of one of these (the variable  *)
(* prog says which), together with its later re-launches.                  *)
(***************************************************************************)
EXTENDS Integers, Sequences, FiniteSets, TLC

\* ------------------------------------------------------------------ bounds
\* Longest recipient list.
MaxLen == 3
\* Largest configured batch size (DELIVERY_SETTINGS['batch_size'], BATCH_SIZE).
MaxBatchSize == 2
\* Process launches of one campaign of the sequential sender: the first one is
\* "Start full campaign", every later one is "Resume campaign".
MaxRuns == 2
\* Worker threads per domain (send.py NUM_THREADS = 150, scaled down).
NUM_THREADS == 2

\* ------------------------------------------------------------- addresses
\* An address is the sequence of its characters.
Addr(local, domain) == <<local, "@">> \o domain

DomX == <<"x", ".", "d">>
DomY == <<"y", ".", "d">>

\* The addresses recipient lists are drawn from.
GoodAddresses == {Addr("a", DomX), Addr("b", DomX), Addr("c", DomY)}

\* An entry without '@', as a recipient file may hold one.
BadAddress == <<"e">>

\* The entries send.py's recipient lists are drawn from.
Addresses == GoodAddresses \cup {BadAddress}

\* The list the sequential sender's recipient lists are prefixes of: distinct
\* addresses, so that a recipient is identified by its address.
CanonList == <<Addr("a", DomX), Addr("c", DomY), Addr("b", DomX), Addr("d", DomY)>>

Min(a, b) == IF a < b THEN a ELSE b

RECURSIVE SumOver(_, _)
\* Sum of f[x] for x in S.
SumOver(f, S) ==
  IF S = {} THEN 0
  ELSE LET x == CHOOSE y \in S : TRUE IN f[x] + SumOver(f, S \ {x})

RECURSIVE Flatten(_)
\* Concatenation of a sequence of sequences.
Flatten(ss) == IF ss = <<>> THEN <<>> ELSE Head(ss) \o Flatten(Tail(ss))

\* Number of positions of list s that hold x.
Occurrences(s, x) == Cardinality({i \in 1..Len(s) : s[i] = x})

\* The set of elements of sequence s.
Range(s) == {s[i] : i \in 1..Len(s)}

\* ------------------------------------------------------ python primitives
\* s[lo:hi] for 0 <= lo, lo <= hi: positions lo..hi-1 (0-based), clipped to s.
PySlice(s, lo, hi) == SubSeq(s, lo + 1, Min(hi, Len(s)))

RECURSIVE SplitFrom(_, _, _)
\* str.split(sep) on the rest s of a string, cur being the piece in progress.
SplitFrom(s, sep, cur) ==
  IF s = <<>> THEN <<cur>>
  ELSE IF Head(s) = sep THEN <<cur>> \o SplitFrom(Tail(s), sep, <<>>)
  ELSE SplitFrom(Tail(s), sep, Append(cur, Head(s)))

\* s.split(sep): the pieces of s between the occurrences of sep.
PySplit(s, sep) == SplitFrom(s, sep, <<>>)

\* ------------------------------------------------ batch_sender.py, pure
RECURSIVE BatchesFrom(_, _, _)
\* The loop of create_batches: for i in range(i, len(emails), batch_size).
BatchesFrom(emails, i, bs) ==
  IF i >= Len(emails) THEN <<>>
  ELSE <<PySlice(emails, i, i + bs)>> \o BatchesFrom(emails, i + bs, bs)

\* A slicing bug: the slice ends one position early.
create_batches_short(emails, bs) ==
  LET RECURSIVE F(_)
      F(i) == IF i >= Len(emails) THEN <<>>
              ELSE <<PySlice(emails, i, i + bs - 1)>> \o F(i + bs)
  IN F(0)

\* NewsletterBatchSender.create_batches
create_batches(emails, bs) == BatchesFrom(emails, 0, bs)

\* get_campaign_estimate: total_batches, by ceiling division.
estimate_total_batches(total_emails, bs) == (total_emails + bs - 1) \div bs

\* ------------------------------------------------------------ send.py, pure
\* email.split('@')[1] raises IndexError for an entry without '@'.
HasDomain(email) == Len(PySplit(email, "@")) >= 2

\* domain = email.split('@')[1]
DomainOf(email) == PySplit(email, "@")[2]

\* A grouping bug: an address of a domain already seen replaces the group.
AddToGroups_replace(groups, email) ==
  LET d == DomainOf(email)
      hit == {i \in 1..Len(groups) : groups[i].domain = d}
  IN IF hit = {} THEN Append(groups, [domain |-> d, emails |-> <<email>>])
     ELSE LET i == CHOOSE j \in hit : TRUE
          IN [groups EXCEPT ![i].emails = <<email>>]

\* domain_groups[domain].append(email): a dict keeps its keys in first-seen order.
AddToGroups(groups, email) ==
  LET d == DomainOf(email)
      hit == {i \in 1..Len(groups) : groups[i].domain = d}
  IN IF hit = {} THEN Append(groups, [domain |-> d, emails |-> <<email>>])
     ELSE LET i == CHOOSE j \in hit : TRUE
          IN [groups EXCEPT ![i].emails = Append(@, email)]

RECURSIVE GroupFrom(_, _)
\* for email in recipient_emails: ...
GroupFrom(emails, groups) ==
  IF emails = <<>> THEN groups
  ELSE GroupFrom(Tail(emails), AddToGroups(groups, Head(emails)))

\* prepare_and_send_batches: domain_groups, as the list of its items.
GroupByDomain(emails) == GroupFrom(emails, <<>>)

\* for i in range(0, len(emails), BATCH_SIZE): batch = emails[i:i + BATCH_SIZE]
DomainBatches(emails, bs) == BatchesFrom(emails, 0, bs)

\* ------------------------------------------------------------------ state
VARIABLES
  prog,           \* which script this behaviour runs: "batch_sender" or "send"
  \* --- batch_sender.py: inputs, fixed for the whole campaign
  email_list,     \* self.email_list, after validate_emails
  batch_size,     \* DELIVERY_SETTINGS['batch_size'] / BATCH_SIZE
  rejects,        \* addresses for which smtp_server.send_message raises
  connFail,       \* batch numbers (1-based) whose get_smtp_connection raises
  quitFail,       \* batch numbers (1-based) whose smtp_server.quit() raises:
                  \* none, or every batch that connects
  \* --- batch_sender.py: the process and the progress file
  pc,             \* position of the sender process
  runs,           \* launches so far
  sent_count,     \* self.sent_count
  failed_count,   \* self.failed_count
  batches,        \* send_all_newsletters: batches
  start_batch,    \* send_all_newsletters: start_batch
  batch_num,      \* send_all_newsletters: batch_num (0-based)
  pos,            \* send_batch: position in batch_emails (1-based)
  batch_stats,    \* send_batch: batch_stats
  progress_file,  \* backups/sending_progress.txt: [exists, lines]
  \* --- batch_sender.py: history, read by the properties only
  delivered,      \* address -> number of times the message was delivered to it
  waits,          \* history: the time.sleep(delay) calls between units of work
                  \* in this run
  attempts,       \* batch number -> number of send_batch calls that returned
  max_recorded,   \* highest completed-batch index a readable file has held
  last_ckpt,      \* the checkpoint this run last loaded or wrote
  \* --- batch_sender.py: save_progress and load_progress called on their own
  fpc,            \* "save", "load", "done"
  args,           \* save_progress: completed_batches, total_batches
  ret,            \* what load_progress returned
  \* --- send.py: prepare_and_send_batches (the coordinator)
  recipient_emails, \* the recipient list read from the emails file
  domain_groups,  \* domain_groups.items(): <<[domain, emails], ...>>
  dom_i,          \* position of the for loop over the domain groups (1-based)
  cpc,            \* position of the coordinator
  enq_i,          \* i of the enqueueing loop
  q,              \* queue.Queue(): the items not yet taken
  unfinished,     \* q.unfinished_tasks
  \* --- send.py: send_email_task (the workers of the current domain)
  workers,        \* thread -> [state, batch, failed_before, conn]; conn: the
                  \* thread's server is a connection it has not quit()
  \* --- send.py: history, read by the properties only
  batch_log,      \* batch id <<domain, number>> -> [emails, takes, dones, outcome]
  mx_log,         \* the calls of resolve_mx_with_timeout: <<[domain, resolved], ...>>
  \* --- batch_sender.py: calculate_delay
  settings,       \* DELIVERY_SETTINGS: key -> value, for the keys that are set
  dpc,            \* position of the call of calculate_delay
  delay,          \* what calculate_delay returned, a rational [num, den]
  \* --- verify.py: EmailVerifier.verify_smtp
  vpc,            \* position of the probe
  probes,         \* calls of verify_smtp so far
  reply,          \* the (code, message) of the RCPT TO of this probe
  vret,           \* what verify_smtp returned: [valid, status]
  input_emails,   \* verify.py: emails, the addresses read from the input file
  vi,             \* how many of them verify_email was called for
  cur,            \* the verify_email call in progress (see NoCall)
  stats,          \* EmailVerificationStats
  results,        \* EmailVerifier.results
  net,            \* send.py: the network a connection meets: the answer to the
                  \* MX query, use_ipv6, and getaddrinfo's result per family
  gpc,            \* position: resolve, ipv6, ipv4, connected, raised, unresolved
  mx_host,        \* mx_server, the host resolve_mx_with_timeout returned
  connection_attempts, \* get_smtp_connection's list of that name
  tried,          \* history: the (host, family, address index) connected to
  seen            \* history: <<[code, message, status], ...>> of the replies to
                  \* RCPT TO and what verify_smtp made of them

seqVars == <<waits, email_list, batch_size, rejects, connFail, quitFail, pc, runs,
             sent_count, failed_count, batches, start_batch, batch_num, pos,
             batch_stats, progress_file, delivered, attempts, max_recorded,
             last_ckpt>>

thrVars == <<recipient_emails, domain_groups, dom_i, cpc, enq_i, q, unfinished,
             workers, batch_log, mx_log>>

dlyVars == <<settings, dpc, delay>>

verVars == <<vpc, probes, reply, vret, seen, input_emails, vi, cur, stats,
            results>>

\* The variables of calculate_delay and verify.py, which the dispatch leaves alone.
conVars == <<net, gpc, mx_host, connection_attempts, tried>>

prgVars == <<fpc, args, ret>>

offVars == <<dlyVars, verVars, conVars, prgVars>>

vars == <<prog, seqVars, thrVars, dlyVars, verVars, conVars, prgVars>>

\* --------------------------------------------- batch_sender.py: progress file
NoProgress == [completed_batches |-> 0, sent |-> 0, failed |-> 0]

\* A bookkeeping bug: the failed count is written on the "Sent" line.
ProgressLines_swapped(completed_batches, total_batches, sent, failed) ==
  << <<"Completed", completed_batches, total_batches>>,
     <<"Sent", failed>>,
     <<"Failed", sent>>,
     <<"Last updated">> >>

\* The four lines save_progress writes (the timestamp's value is left out).
ProgressLines(completed_batches, total_batches, sent, failed) ==
  << <<"Completed", completed_batches, total_batches>>,
     <<"Sent", sent>>,
     <<"Failed", failed>>,
     <<"Last updated">> >>

\* load_progress reads lines[0], lines[1], lines[2]: a file with fewer lines
\* raises IndexError, which load_progress catches.
Readable(file) == file.exists /\ Len(file.lines) >= 3

\* What a readable file records.
Recorded(file) ==
  [completed_batches |-> file.lines[1][2],
   sent |-> file.lines[2][2],
   failed |-> file.lines[3][2]]

\* A resume bug: the counters of the previous run are not carried over.
load_progress_nocounts(file) ==
  IF Readable(file)
  THEN [completed_batches |-> file.lines[1][2], sent |-> 0, failed |-> 0]
  ELSE NoProgress

\* A resume bug: the resumed run starts one batch too late.
load_progress_skip(file) ==
  IF Readable(file)
  THEN [completed_batches |-> file.lines[1][2] + 1,
        sent |-> file.lines[2][2], failed |-> file.lines[3][2]]
  ELSE NoProgress

\* The decimal digits.
Digit == <<"0", "1", "2", "3", "4", "5", "6", "7", "8", "9">>

\* str(n) of a natural number, as the sequence of its characters.
RECURSIVE PyStr(_)
PyStr(n) ==
  IF n < 10 THEN <<Digit[n + 1]>>
  ELSE PyStr(n \div 10) \o <<Digit[(n % 10) + 1]>>

\* str(datetime.now()) at some moment.
Timestamp ==
  <<"2", "0", "2", "4", "-", "0", "1", "-", "0", "1", " ",
    "1", "2", ":", "0", "0", ":", "0", "0", ".", "5">>

\* The text that f.write(f"...") of save_progress puts in the file for a line.
FormatLine(line) ==
  CASE line[1] = "Completed" ->
         <<"C", "o", "m", "p", "l", "e", "t", "e", "d", ":", " ">>
           \o PyStr(line[2]) \o <<"/">> \o PyStr(line[3]) \o <<"\n">>
    [] line[1] = "Sent" ->
         <<"S", "e", "n", "t", ":", " ">> \o PyStr(line[2]) \o <<"\n">>
    [] line[1] = "Failed" ->
         <<"F", "a", "i", "l", "e", "d", ":", " ">> \o PyStr(line[2]) \o <<"\n">>
    [] OTHER ->
         <<"L", "a", "s", "t", " ", "u", "p", "d", "a", "t", "e", "d", ":", " ">>
           \o Timestamp \o <<"\n">>

\* f.readlines(): the text of the file, line by line.
readlines(file) == [i \in 1..Len(file.lines) |-> FormatLine(file.lines[i])]

Whitespace == {" ", "\n", "\t", "\r"}

\* str.strip()
RECURSIVE PyStrip(_)
PyStrip(s) ==
  IF s = <<>> THEN s
  ELSE IF Head(s) \in Whitespace THEN PyStrip(Tail(s))
  ELSE IF s[Len(s)] \in Whitespace THEN PyStrip(SubSeq(s, 1, Len(s) - 1))
  ELSE s

\* An exception raised inside the try block of load_progress.
Raised == [raised |-> TRUE, value |-> 0]

IsDigit(c) == \E d \in 1..10 : Digit[d] = c

DigitValue(c) == (CHOOSE d \in 1..10 : Digit[d] = c) - 1

RECURSIVE Decimal(_)
Decimal(s) ==
  IF s = <<>> THEN 0
  ELSE 10 * Decimal(SubSeq(s, 1, Len(s) - 1)) + DigitValue(s[Len(s)])

\* int(s): whitespace around the number is dropped, one sign is allowed, the
\* rest must be digits, at least one (the underscores of PEP 515 are left out);
\* anything else raises ValueError.
PyInt(s) ==
  LET t == PyStrip(s)
      signed == t # <<>> /\ t[1] \in {"+", "-"}
      digits == IF signed THEN Tail(t) ELSE t
  IN IF digits = <<>> \/ \E i \in 1..Len(digits) : ~IsDigit(digits[i])
     THEN Raised
     ELSE [raised |-> FALSE,
           value |-> IF signed /\ t[1] = "-" THEN 0 - Decimal(digits)
                     ELSE Decimal(digits)]

\* A parsing bug: the number after the '/' is taken, the total.
Field_total(lines, i, slash) ==
  IF i > Len(lines) THEN Raised
  ELSE LET parts == PySplit(lines[i], ":")
       IN IF Len(parts) < 2 THEN Raised
          ELSE LET halves == PySplit(parts[2], "/")
               IN PyInt(PyStrip(halves[Len(halves)]))

\* int(lines[i].split(':')[1].strip()), with .split('/')[0] before the strip
\* for the first line: a missing line or a line without ':' raises IndexError.
Field(lines, i, slash) ==
  IF i > Len(lines) THEN Raised
  ELSE LET parts == PySplit(lines[i], ":")
       IN IF Len(parts) < 2 THEN Raised
          ELSE PyInt(PyStrip(IF slash THEN PySplit(parts[2], "/")[1]
                             ELSE parts[2]))

\* An error-handling bug: a value that cannot be read is taken as 0 and the
\* other values are kept.
load_progress_partial(file) ==
  IF ~file.exists THEN NoProgress
  ELSE LET lines == readlines(file)
           completed == Field(lines, 1, TRUE)
           sent == Field(lines, 2, FALSE)
           failed == Field(lines, 3, FALSE)
       IN [completed_batches |-> completed.value,
           sent |-> sent.value,
           failed |-> failed.value]

\* NewsletterBatchSender.load_progress: zeros when the file does not exist and
\* when anything in the try block raises.
load_progress(file) ==
  IF ~file.exists THEN NoProgress
  ELSE LET lines == readlines(file)
           completed == Field(lines, 1, TRUE)
           sent == Field(lines, 2, FALSE)
           failed == Field(lines, 3, FALSE)
       IN IF completed.raised \/ sent.raised \/ failed.raised THEN NoProgress
          ELSE [completed_batches |-> completed.value,
                sent |-> sent.value,
                failed |-> failed.value]

\* ------------------------------------------------ batch_sender.py: the run
RunPcs == {"loop", "connect", "send", "quit", "save_open", "save_write", "delay"}

\* The batch send_batch is working on, 1-based.
CurBatch == batch_num + 1

\* A process that has exited holds no memory.
MemoryGone ==
  /\ waits' = 0
  /\ sent_count' = 0
  /\ failed_count' = 0
  /\ batches' = <<>>
  /\ start_batch' = 0
  /\ batch_num' = 0
  /\ pos' = 0
  /\ batch_stats' = [sent |-> 0, failed |-> 0]

\* A resume that goes back to the first batch that failed in an earlier run.
Launch_retryfailed ==
  /\ prog = "batch_sender"
  /\ pc \in {"menu", "killed", "crashed", "done"}
  /\ runs < MaxRuns
  /\ LET resume == runs > 0
         failed == {b \in connFail : attempts[b] >= 1}
         FirstFailed == IF failed = {} THEN Len(email_list) + 1
                        ELSE CHOOSE b \in failed : \A o \in failed : b <= o
         progress == IF resume THEN load_progress(progress_file) ELSE NoProgress
     IN /\ sent_count' = progress.sent
        /\ failed_count' = progress.failed
        /\ start_batch' = Min(progress.completed_batches, FirstFailed - 1)
        /\ batch_num' = Min(progress.completed_batches, FirstFailed - 1)
        /\ last_ckpt' = IF resume /\ Readable(progress_file)
                        THEN Recorded(progress_file) ELSE NoProgress
  /\ batches' = create_batches(email_list, batch_size)
  /\ pos' = 0
  /\ waits' = 0
  /\ batch_stats' = [sent |-> 0, failed |-> 0]
  /\ runs' = runs + 1
  /\ pc' = "loop"
  /\ UNCHANGED <<prog, offVars, thrVars, email_list, batch_size, rejects, connFail, quitFail,
                 progress_file, delivered, attempts, max_recorded>>

\* main(): a new process, NewsletterBatchSender() and send_all_newsletters(resume)
\* up to the for loop. The first launch is choice 3, later ones choice 4.
Launch ==
  /\ prog = "batch_sender"
  /\ pc \in {"menu", "killed", "crashed", "done"}
  /\ runs < MaxRuns
  /\ LET resume == runs > 0
         progress == IF resume THEN load_progress(progress_file) ELSE NoProgress
     IN /\ sent_count' = progress.sent
        /\ failed_count' = progress.failed
        /\ start_batch' = progress.completed_batches
        /\ batch_num' = progress.completed_batches
        /\ last_ckpt' = IF resume /\ Readable(progress_file)
                        THEN Recorded(progress_file) ELSE NoProgress
  /\ batches' = create_batches(email_list, batch_size)
  /\ pos' = 0
  /\ waits' = 0
  /\ batch_stats' = [sent |-> 0, failed |-> 0]
  /\ runs' = runs + 1
  /\ pc' = "loop"
  /\ UNCHANGED <<prog, offVars, thrVars, email_list, batch_size, rejects, connFail, quitFail,
                 progress_file, delivered, attempts, max_recorded>>

\* for batch_num, batch_emails in enumerate(batches[start_batch:], start_batch):
\* the next iteration enters send_batch.
ForNext ==
  /\ prog = "batch_sender" /\ pc = "loop"
  /\ batch_num < Len(batches)
  /\ batch_stats' = [sent |-> 0, failed |-> 0]
  /\ pos' = 0
  /\ pc' = "connect"
  /\ UNCHANGED <<prog, offVars, thrVars, waits, email_list, batch_size, rejects, connFail, quitFail, runs,
                 sent_count, failed_count, batches, start_batch, batch_num, progress_file,
                 delivered, attempts, max_recorded, last_ckpt>>

\* A persistence bug: the checkpoint is written once more after the loop, outside
\* save_progress.
ForEnd_persist ==
  /\ prog = "batch_sender" /\ pc = "loop"
  /\ batch_num >= Len(batches)
  /\ pc' = "done"
  /\ progress_file' = [exists |-> TRUE,
                       lines |-> ProgressLines(batch_num, Len(batches),
                                               sent_count, failed_count)]
  /\ UNCHANGED <<prog, offVars, thrVars, waits, email_list, batch_size, rejects, connFail, quitFail, runs,
                 sent_count, failed_count, batches, start_batch, batch_num, pos, batch_stats,
                 delivered, attempts, max_recorded, last_ckpt>>

\* The loop is exhausted: final statistics, the campaign is completed.
ForEnd ==
  /\ prog = "batch_sender" /\ pc = "loop"
  /\ batch_num >= Len(batches)
  /\ pc' = "done"
  /\ UNCHANGED <<prog, offVars, thrVars, waits, email_list, batch_size, rejects, connFail, quitFail, runs,
                 sent_count, failed_count, batches, start_batch, batch_num, pos, batch_stats,
                 progress_file, delivered, attempts, max_recorded, last_ckpt>>

\* send_batch: smtp_server = self.get_smtp_connection(). When it raises, the outer
\* handler counts the whole batch as failed and send_batch returns.
Connect ==
  /\ prog = "batch_sender" /\ pc = "connect"
  /\ IF CurBatch \in connFail
     THEN LET n == Len(batches[CurBatch]) - batch_stats.sent
          IN /\ batch_stats' = [batch_stats EXCEPT !.failed = @ + n]
             /\ failed_count' = failed_count + n
             /\ attempts' = [attempts EXCEPT ![CurBatch] = @ + 1]
             /\ pos' = pos
             /\ pc' = "save_open"
     ELSE /\ pos' = 1
          /\ pc' = "send"
          /\ UNCHANGED <<batch_stats, failed_count, attempts>>
  /\ UNCHANGED <<prog, offVars, thrVars, waits, email_list, batch_size, rejects, connFail, quitFail, runs,
                 sent_count, batches, start_batch, batch_num, progress_file, delivered,
                 max_recorded, last_ckpt>>

\* An error-handling bug: a recipient's failure ends the loop over the batch.
SendOne_abort ==
  /\ prog = "batch_sender" /\ pc = "send"
  /\ LET email == batches[CurBatch][pos]
     IN IF email \in rejects
        THEN /\ batch_stats' = [batch_stats EXCEPT !.failed = @ + 1]
             /\ failed_count' = failed_count + 1
             /\ pos' = pos /\ pc' = "quit"
             /\ UNCHANGED <<sent_count, delivered>>
        ELSE /\ batch_stats' = [batch_stats EXCEPT !.sent = @ + 1]
             /\ sent_count' = sent_count + 1
             /\ delivered' = [delivered EXCEPT ![email] = @ + 1]
             /\ IF pos < Len(batches[CurBatch])
                THEN pos' = pos + 1 /\ pc' = "send"
                ELSE pos' = pos /\ pc' = "quit"
             /\ UNCHANGED failed_count
  /\ UNCHANGED <<prog, offVars, thrVars, waits, email_list, batch_size, rejects, connFail, quitFail, runs,
                 batches, start_batch, batch_num, progress_file, attempts, max_recorded,
                 last_ckpt>>

\* send_batch: one iteration of "for email in batch_emails". send_single_email
\* returns False when send_message raises.
SendOne ==
  /\ prog = "batch_sender" /\ pc = "send"
  /\ LET email == batches[CurBatch][pos]
     IN IF email \in rejects
        THEN /\ batch_stats' = [batch_stats EXCEPT !.failed = @ + 1]
             /\ failed_count' = failed_count + 1
             /\ UNCHANGED <<sent_count, delivered>>
        ELSE /\ batch_stats' = [batch_stats EXCEPT !.sent = @ + 1]
             /\ sent_count' = sent_count + 1
             /\ delivered' = [delivered EXCEPT ![email] = @ + 1]
             /\ UNCHANGED failed_count
  /\ IF pos < Len(batches[CurBatch])
     THEN pos' = pos + 1 /\ pc' = "send"
     ELSE pos' = pos /\ pc' = "quit"
  /\ UNCHANGED <<prog, offVars, thrVars, waits, email_list, batch_size, rejects, connFail, quitFail, runs,
                 batches, start_batch, batch_num, progress_file, attempts, max_recorded,
                 last_ckpt>>

\* send_batch: smtp_server.quit() after the loop, inside the outer try. When it
\* raises, the outer handler adds len(batch_emails) - batch_stats['sent'] failures.
Quit ==
  /\ prog = "batch_sender" /\ pc = "quit"
  /\ IF CurBatch \in quitFail
     THEN LET n == Len(batches[CurBatch]) - batch_stats.sent
          IN /\ batch_stats' = [batch_stats EXCEPT !.failed = @ + n]
             /\ failed_count' = failed_count + n
     ELSE UNCHANGED <<batch_stats, failed_count>>
  /\ attempts' = [attempts EXCEPT ![CurBatch] = @ + 1]
  /\ pc' = "save_open"
  /\ UNCHANGED <<prog, offVars, thrVars, waits, email_list, batch_size, rejects, connFail, quitFail, runs,
                 sent_count, batches, start_batch, batch_num, pos, progress_file, delivered,
                 max_recorded, last_ckpt>>

\* save_progress: open(progress_file, 'w') truncates the file.
SaveOpen ==
  /\ prog = "batch_sender" /\ pc = "save_open"
  /\ progress_file' = [exists |-> TRUE, lines |-> <<>>]
  /\ pc' = "save_write"
  /\ UNCHANGED <<prog, offVars, thrVars, waits, email_list, batch_size, rejects, connFail, quitFail, runs,
                 sent_count, failed_count, batches, start_batch, batch_num, pos, batch_stats,
                 delivered, attempts, max_recorded, last_ckpt>>

\* save_progress: open(progress_file, 'w') raises (the file or its directory is
\* not writable). Neither save_progress nor send_all_newsletters nor main
\* handles the OSError: the process ends with a traceback.
SaveFail ==
  /\ prog = "batch_sender" /\ pc = "save_open"
  /\ MemoryGone
  /\ last_ckpt' = NoProgress
  /\ pc' = "crashed"
  /\ UNCHANGED <<prog, offVars, thrVars, email_list, batch_size, rejects, connFail, quitFail, runs,
                 progress_file, delivered, attempts, max_recorded>>

\* An off-by-one bug: save_progress(batch_num, total_batches).
SaveWrite_stale ==
  /\ prog = "batch_sender" /\ pc = "save_write"
  /\ progress_file' = [exists |-> TRUE,
                       lines |-> ProgressLines(batch_num, Len(batches),
                                               sent_count, failed_count)]
  /\ last_ckpt' = Recorded(progress_file')
  /\ max_recorded' = IF batch_num > max_recorded THEN batch_num ELSE max_recorded
  /\ IF batch_num < Len(batches) - 1
     THEN pc' = "delay" /\ batch_num' = batch_num
     ELSE pc' = "loop" /\ batch_num' = batch_num + 1
  /\ UNCHANGED <<prog, offVars, thrVars, waits, email_list, batch_size, rejects, connFail, quitFail,
                 runs, sent_count, failed_count, batches, start_batch, pos,
                 batch_stats, delivered, attempts>>

\* save_progress(batch_num + 1, total_batches): the four writes and the close;
\* then the delay, except after the last batch.
SaveWrite ==
  /\ prog = "batch_sender" /\ pc = "save_write"
  /\ progress_file' = [exists |-> TRUE,
                       lines |-> ProgressLines(batch_num + 1, Len(batches),
                                               sent_count, failed_count)]
  /\ last_ckpt' = Recorded(progress_file')
  /\ max_recorded' = IF batch_num + 1 > max_recorded THEN batch_num + 1
                     ELSE max_recorded
  /\ IF batch_num < Len(batches) - 1
     THEN pc' = "delay" /\ batch_num' = batch_num
     ELSE pc' = "loop" /\ batch_num' = batch_num + 1
  /\ UNCHANGED <<prog, offVars, thrVars, waits, email_list, batch_size, rejects, connFail, quitFail, runs,
                 sent_count, failed_count, batches, start_batch, pos, batch_stats, delivered,
                 attempts>>

\* A pacing bug: the next batch starts without the sleep.
Delay_nosleep ==
  /\ prog = "batch_sender" /\ pc = "delay"
  /\ batch_num' = batch_num + 1
  /\ pc' = "loop"
  /\ UNCHANGED <<prog, offVars, thrVars, waits, email_list, batch_size, rejects, connFail, quitFail, runs,
                 sent_count, failed_count, batches, start_batch, pos, batch_stats,
                 progress_file, delivered, attempts, max_recorded, last_ckpt>>

\* time.sleep(self.calculate_delay()) between two batches.
Delay ==
  /\ prog = "batch_sender" /\ pc = "delay"
  /\ batch_num' = batch_num + 1
  /\ waits' = waits + 1
  /\ pc' = "loop"
  /\ UNCHANGED <<prog, offVars, thrVars, email_list, batch_size, rejects, connFail, quitFail, runs,
                 sent_count, failed_count, batches, start_batch, pos, batch_stats,
                 progress_file, delivered, attempts, max_recorded, last_ckpt>>

\* The operator interrupts the run (KeyboardInterrupt): no handler of
\* batch_sender.py catches it (they catch Exception), the process exits. Inside
\* save_progress the with block closes the file with the lines written so far.
Interrupt ==
  /\ prog = "batch_sender" /\ pc \in RunPcs
  /\ IF pc = "save_write"
     THEN \E k \in 0..4 :
            /\ progress_file' =
                 [exists |-> TRUE,
                  lines |-> SubSeq(ProgressLines(batch_num + 1, Len(batches),
                                                 sent_count, failed_count), 1, k)]
            /\ max_recorded' = IF k >= 3 /\ batch_num + 1 > max_recorded
                               THEN batch_num + 1 ELSE max_recorded
     ELSE UNCHANGED <<progress_file, max_recorded>>
  /\ MemoryGone
  /\ last_ckpt' = NoProgress
  /\ pc' = "killed"
  /\ UNCHANGED <<prog, offVars, thrVars, email_list, batch_size, rejects, connFail, quitFail, runs,
                 delivered, attempts>>

NextSeq ==
  \/ Launch \/ ForNext \/ ForEnd \/ Connect \/ SendOne \/ Quit
  \/ SaveOpen \/ SaveFail \/ SaveWrite \/ Delay \/ Interrupt

\* --------------------------------------------------- send.py: the dispatcher
Threads == 1..NUM_THREADS

NoBatch == <<0, 0>>

\* The None that stops a thread.
StopItem == [kind |-> "stop", id |-> NoBatch, emails |-> <<>>]

IdleWorker == [state |-> "get", batch |-> NoBatch, failed_before |-> FALSE,
               conn |-> FALSE]

NotStarted == [state |-> "none", batch |-> NoBatch, failed_before |-> FALSE,
               conn |-> FALSE]

\* prepare_and_send_batches: the grouping loop. An entry without '@' raises
\* IndexError, which nothing in the function catches.
CGroup ==
  /\ prog = "send" /\ cpc = "start"
  /\ IF \A i \in 1..Len(recipient_emails) : HasDomain(recipient_emails[i])
     THEN /\ domain_groups' = GroupByDomain(recipient_emails)
          /\ dom_i' = 1
          /\ cpc' = "domain"
     ELSE /\ cpc' = "crashed"
          /\ UNCHANGED <<domain_groups, dom_i>>
  /\ UNCHANGED <<prog, offVars, seqVars, recipient_emails, mx_log, enq_i, q, unfinished, workers,
                 batch_log>>

\* A retry bug: after a failed resolution the loop stays on the same domain.
CResolve_retry ==
  /\ prog = "send" /\ cpc = "domain"
  /\ dom_i <= Len(domain_groups)
  /\ \E resolved \in BOOLEAN :
       /\ mx_log' = Append(mx_log, [domain |-> dom_i, resolved |-> resolved])
       /\ IF resolved
          THEN /\ q' = <<>>
               /\ unfinished' = 0
               /\ workers' = [w \in Threads |-> IdleWorker]
               /\ enq_i' = 0
               /\ cpc' = "enqueue"
               /\ UNCHANGED dom_i
          ELSE UNCHANGED <<dom_i, q, unfinished, workers, enq_i, cpc>>
  /\ UNCHANGED <<prog, offVars, seqVars, recipient_emails, domain_groups, batch_log>>

\* for domain, emails in domain_groups.items(): resolve_mx_with_timeout(domain);
\* when it raises (NXDOMAIN, NoAnswer, Timeout, any other), the handler logs and
\* continues with the next domain. Otherwise q = queue.Queue() and NUM_THREADS
\* threads are started, each blocking in q.get().
CResolve ==
  /\ prog = "send" /\ cpc = "domain"
  /\ dom_i <= Len(domain_groups)
  /\ \E resolved \in BOOLEAN :
       /\ mx_log' = Append(mx_log, [domain |-> dom_i, resolved |-> resolved])
       /\ IF resolved
          THEN /\ q' = <<>>
               /\ unfinished' = 0
               /\ workers' = [w \in Threads |-> IdleWorker]
               /\ enq_i' = 0
               /\ cpc' = "enqueue"
               /\ UNCHANGED dom_i
          ELSE /\ dom_i' = dom_i + 1
               /\ UNCHANGED <<q, unfinished, workers, enq_i, cpc>>
  /\ UNCHANGED <<prog, offVars, seqVars, recipient_emails, domain_groups, batch_log>>

\* The loop over the domain groups is exhausted.
CFinish ==
  /\ prog = "send" /\ cpc = "domain"
  /\ dom_i > Len(domain_groups)
  /\ cpc' = "finished"
  /\ UNCHANGED <<prog, offVars, seqVars, recipient_emails, mx_log, domain_groups, dom_i, enq_i, q,
                 unfinished, workers, batch_log>>

\* for i in range(0, len(emails), BATCH_SIZE): q.put(emails[i:i + BATCH_SIZE])
CEnqueue ==
  /\ prog = "send" /\ cpc = "enqueue"
  /\ LET emails == domain_groups[dom_i].emails
         id == <<dom_i, (enq_i \div batch_size) + 1>>
         batch == PySlice(emails, enq_i, enq_i + batch_size)
     IN /\ q' = Append(q, [kind |-> "batch", id |-> id, emails |-> batch])
        /\ unfinished' = unfinished + 1
        /\ batch_log' = (id :> [emails |-> batch, takes |-> 0, dones |-> 0,
                                 outcome |-> "none"])
                        @@ batch_log
        /\ enq_i' = enq_i + batch_size
        /\ cpc' = IF enq_i + batch_size < Len(emails) THEN "enqueue" ELSE "join"
  /\ UNCHANGED <<prog, offVars, seqVars, recipient_emails, mx_log, domain_groups, dom_i, workers>>

\* A shutdown bug: the sentinels are put without waiting for q.join().
CJoin_early ==
  /\ prog = "send" /\ cpc = "join"
  /\ q' = q \o [w \in Threads |-> StopItem]
  /\ unfinished' = unfinished + NUM_THREADS
  /\ cpc' = "join_threads"
  /\ UNCHANGED <<prog, offVars, seqVars, recipient_emails, mx_log, domain_groups, dom_i, enq_i,
                 workers, batch_log>>

\* q.join() returns once every item put has been marked done; then one None per
\* thread is put.
CJoin ==
  /\ prog = "send" /\ cpc = "join"
  /\ unfinished = 0
  /\ q' = q \o [w \in Threads |-> StopItem]
  /\ unfinished' = unfinished + NUM_THREADS
  /\ cpc' = "join_threads"
  /\ UNCHANGED <<prog, offVars, seqVars, recipient_emails, mx_log, domain_groups, dom_i, enq_i,
                 workers, batch_log>>

\* A shutdown bug: the next domain group is begun without thread.join().
CJoinThreads_nowait ==
  /\ prog = "send" /\ cpc = "join_threads"
  /\ dom_i' = dom_i + 1
  /\ workers' = [w \in Threads |-> NotStarted]
  /\ q' = <<>>
  /\ unfinished' = 0
  /\ cpc' = "domain"
  /\ UNCHANGED <<prog, offVars, seqVars, recipient_emails, mx_log, domain_groups, enq_i, batch_log>>

\* for thread in threads: thread.join(); then the next domain group.
CJoinThreads ==
  /\ prog = "send" /\ cpc = "join_threads"
  /\ \A w \in Threads : workers[w].state = "exited"
  /\ dom_i' = dom_i + 1
  /\ workers' = [w \in Threads |-> NotStarted]
  /\ q' = <<>>
  /\ unfinished' = 0
  /\ cpc' = "domain"
  /\ UNCHANGED <<prog, offVars, seqVars, recipient_emails, mx_log, domain_groups, enq_i, batch_log>>

\* A worker bug: q.task_done() at the end of the try block, not in finally, so
\* a batch whose processing raised is never marked done.
TaskDone_intry(w, outcome, failed, open) ==
  /\ unfinished' = IF failed THEN unfinished ELSE unfinished - 1
  /\ batch_log' = [batch_log EXCEPT ![workers[w].batch] =
                     [@ EXCEPT !.dones = IF failed THEN @ ELSE @ + 1,
                               !.outcome = outcome]]
  /\ workers' = [workers EXCEPT ![w] =
                   [state |-> "get", batch |-> NoBatch,
                    failed_before |-> @.failed_before \/ failed,
                    conn |-> open]]

\* finally: q.task_done(), and the thread is back at q.get(); open says whether
\* its server variable still holds a connection that was not quit().
TaskDone(w, outcome, failed, open) ==
  /\ unfinished' = unfinished - 1
  /\ batch_log' = [batch_log EXCEPT ![workers[w].batch] =
                     [@ EXCEPT !.dones = @ + 1, !.outcome = outcome]]
  /\ workers' = [workers EXCEPT ![w] =
                   [state |-> "get", batch |-> NoBatch,
                    failed_before |-> @.failed_before \/ failed,
                    conn |-> open]]

\* A queue bug: get() hands the first item out without removing it.
WGet_peek(w) ==
  /\ prog = "send" /\ workers[w].state = "get"
  /\ q # <<>>
  /\ LET item == Head(q)
     IN IF item.kind = "stop"
        THEN /\ workers' = [workers EXCEPT ![w].state = "exited",
                                                ![w].conn = FALSE]
             /\ q' = Tail(q)
             /\ UNCHANGED batch_log
        ELSE /\ workers' = [workers EXCEPT ![w].state = "connect",
                                           ![w].batch = item.id]
             /\ q' = IF batch_log[item.id].takes = 0 THEN q ELSE Tail(q)
             /\ batch_log' = [batch_log EXCEPT ![item.id].takes = @ + 1]
  /\ UNCHANGED <<prog, offVars, seqVars, recipient_emails, mx_log, domain_groups, dom_i, cpc, enq_i,
                 unfinished>>

\* send_email_task: batch = q.get(); None ends the thread (and releases its
\* server variable).
WGet(w) ==
  /\ prog = "send" /\ workers[w].state = "get"
  /\ q # <<>>
  /\ LET item == Head(q)
     IN /\ q' = Tail(q)
        /\ IF item.kind = "stop"
           THEN /\ workers' = [workers EXCEPT ![w].state = "exited",
                                              ![w].conn = FALSE]
                /\ UNCHANGED batch_log
           ELSE /\ workers' = [workers EXCEPT ![w].state = "connect",
                                              ![w].batch = item.id]
                /\ batch_log' = [batch_log EXCEPT ![item.id].takes = @ + 1]
  /\ UNCHANGED <<prog, offVars, seqVars, recipient_emails, mx_log, domain_groups, dom_i, cpc, enq_i,
                 unfinished>>

\* An error-handling bug: a ConnectionError ends the thread.
WConnect_die(w) ==
  /\ prog = "send" /\ workers[w].state = "connect"
  /\ \E connected \in BOOLEAN :
       IF connected
       THEN /\ workers' = [workers EXCEPT ![w].state = "send", ![w].conn = TRUE]
            /\ UNCHANGED <<unfinished, batch_log>>
       ELSE /\ workers' = [workers EXCEPT ![w].state = "exited"]
            /\ UNCHANGED <<unfinished, batch_log>>
  /\ UNCHANGED <<prog, offVars, seqVars, recipient_emails, mx_log, domain_groups, dom_i, cpc, enq_i, q>>

\* send_email_task: server = get_smtp_connection(...); server.ehlo(...). A
\* ConnectionError is logged; finally: task_done. server is assigned only when
\* get_smtp_connection returns: it then holds the new connection, and otherwise
\* what it held before.
WConnect(w) ==
  /\ prog = "send" /\ workers[w].state = "connect"
  /\ \E connected \in BOOLEAN :
       IF connected
       THEN /\ workers' = [workers EXCEPT ![w].state = "send", ![w].conn = TRUE]
            /\ UNCHANGED <<unfinished, batch_log>>
       ELSE TaskDone(w, "conn_failed", TRUE, workers[w].conn)
  /\ UNCHANGED <<prog, offVars, seqVars, recipient_emails, mx_log, domain_groups, dom_i, cpc, enq_i, q>>

\* send_email_task: server.sendmail(sender_email, batch, ...). When it raises
\* (sender, recipients or data refused), the handlers log, server.quit() is
\* skipped and the connection stays as it is; finally: task_done.
WSend(w) ==
  /\ prog = "send" /\ workers[w].state = "send"
  /\ \E accepted \in BOOLEAN :
       IF accepted
       THEN /\ workers' = [workers EXCEPT ![w].state = "quit"]
            /\ UNCHANGED <<unfinished, batch_log>>
       ELSE TaskDone(w, "smtp_failed", TRUE, TRUE)
  /\ UNCHANGED <<prog, offVars, seqVars, recipient_emails, mx_log, domain_groups, dom_i, cpc, enq_i, q>>

\* send_email_task: server.quit() closes the connection (an exception of quit
\* is logged too); finally: task_done.
WQuit(w) ==
  /\ prog = "send" /\ workers[w].state = "quit"
  /\ TaskDone(w, "sent", FALSE, FALSE)
  /\ UNCHANGED <<prog, offVars, seqVars, recipient_emails, mx_log, domain_groups, dom_i, cpc, enq_i, q>>

NextThr ==
  \/ CGroup \/ CResolve \/ CFinish \/ CEnqueue \/ CJoin \/ CJoinThreads
  \/ \E w \in Threads : WGet(w)
  \/ \E w \in Threads : WConnect(w)
  \/ \E w \in Threads : WSend(w)
  \/ \E w \in Threads : WQuit(w)

\* ------------------------------------------- batch_sender.py: calculate_delay
\* dict.get(key, default)
DictGet(d, key, default) == IF key \in DOMAIN d THEN d[key] ELSE default

\* The keys of DELIVERY_SETTINGS that calculate_delay reads.
SettingKeys == {"enable_throttling", "batch_delay_seconds", "emails_per_hour",
                "batch_size"}

\* The values the settings are drawn from (config.py: 50, 100 and 60).
BatchSizes == {1, 2, 50}
Rates == {0, 1, 100, 3600, 7200}
MinDelays == {0, 1, 60, 1800}

\* A number of seconds, as the fraction num / den with den > 0.
Rat(n, d) == [num |-> n, den |-> d]

RatGeq(a, b) == a.num * b.den >= b.num * a.den

RatEq(a, b) == a.num * b.den = b.num * a.den

NoDelay == Rat(0, 1)

\* emails_per_second is 0.0 for emails_per_hour = 0, and batch_size / 0.0 raises
\* ZeroDivisionError.
DelayRaises(ds) ==
  /\ DictGet(ds, "enable_throttling", TRUE)
  /\ DictGet(ds, "emails_per_hour", 100) = 0

\* A throttling bug: the smaller of the two delays is returned.
calculate_delay_min(ds) ==
  IF ~DictGet(ds, "enable_throttling", TRUE)
  THEN Rat(DictGet(ds, "batch_delay_seconds", 60), 1)
  ELSE LET emails_per_hour == DictGet(ds, "emails_per_hour", 100)
           bs == DictGet(ds, "batch_size", 50)
           batch_time == Rat(bs * 3600, emails_per_hour)
           floor == Rat(DictGet(ds, "batch_delay_seconds", 60), 1)
       IN IF RatGeq(batch_time, floor) THEN floor ELSE batch_time

\* NewsletterBatchSender.calculate_delay: batch_size / (emails_per_hour / 3600)
\* is batch_size * 3600 / emails_per_hour; max(a, b) is a unless b is greater.
calculate_delay(ds) ==
  IF ~DictGet(ds, "enable_throttling", TRUE)
  THEN Rat(DictGet(ds, "batch_delay_seconds", 60), 1)
  ELSE LET emails_per_hour == DictGet(ds, "emails_per_hour", 100)
           bs == DictGet(ds, "batch_size", 50)
           batch_time == Rat(bs * 3600, emails_per_hour)
           floor == Rat(DictGet(ds, "batch_delay_seconds", 60), 1)
       IN IF RatGeq(batch_time, floor) THEN batch_time ELSE floor

\* delay = self.calculate_delay()
CalcDelay ==
  /\ prog = "calculate_delay" /\ dpc = "call"
  /\ IF DelayRaises(settings)
     THEN dpc' = "raised" /\ delay' = delay
     ELSE dpc' = "returned" /\ delay' = calculate_delay(settings)
  /\ UNCHANGED <<prog, prgVars, seqVars, thrVars, verVars, conVars, settings>>

NextDelay == CalcDelay

\* --------------------------------------------------- verify.py: verify_smtp
\* Addresses in the input file of the verifier.
MaxProbes == 2

UpperCase == <<"A", "B", "C", "D", "E", "F", "G", "H", "I", "J", "K", "L", "M", "N", "O", "P", "Q", "R", "S", "T", "U", "V", "W", "X", "Y", "Z">>

LowerCase == <<"a", "b", "c", "d", "e", "f", "g", "h", "i", "j", "k", "l", "m", "n", "o", "p", "q", "r", "s", "t", "u", "v", "w", "x", "y", "z">>

\* str.lower(), on the letters A-Z.
Lower(text) ==
  [i \in 1..Len(text) |->
     IF \E k \in 1..Len(UpperCase) : UpperCase[k] = text[i]
     THEN LowerCase[CHOOSE k \in 1..Len(UpperCase) : UpperCase[k] = text[i]]
     ELSE text[i]]

\* sub in text
Contains(text, sub) ==
  \E i \in 1..(Len(text) - Len(sub) + 1) : SubSeq(text, i, i + Len(sub) - 1) = sub

\* The keywords verify_smtp looks for.
kw_quota == <<"q", "u", "o", "t", "a">>
kw_over_quota == <<"o", "v", "e", "r", " ", "q", "u", "o", "t", "a">>
kw_insufficient == <<"i", "n", "s", "u", "f", "f", "i", "c", "i", "e", "n", "t">>
kw_storage == <<"s", "t", "o", "r", "a", "g", "e">>
kw_disk == <<"d", "i", "s", "k">>

\* Detail texts a server sends with its reply, each with what a reader finds in
\* it: a quota keyword, a storage or disk keyword.
DetailSamples ==
  {
    [text |-> <<"o", "k">>,
     quota |-> FALSE, storage |-> FALSE],
    [text |-> <<"Q", "u", "o", "t", "a">>,
     quota |-> TRUE, storage |-> FALSE],
    [text |-> <<"Q", "U", "O", "T", "A", " ", "f", "u", "l", "l">>,
     quota |-> TRUE, storage |-> FALSE],
    [text |-> <<"D", "i", "s", "k">>,
     quota |-> FALSE, storage |-> TRUE],
    [text |-> <<"n", "o", " ", "S", "t", "o", "r", "a", "g", "e">>,
     quota |-> FALSE, storage |-> TRUE],
    [text |-> <<"I", "N", "S", "U", "F", "F", "I", "C", "I", "E", "N", "T">>,
     quota |-> FALSE, storage |-> TRUE],
    [text |-> <<"d", "i", "s", "k", " ", "q", "u", "o", "t", "a">>,
     quota |-> TRUE, storage |-> TRUE],
    [text |-> <<"n", "o", " ", "u", "s", "e", "r">>,
     quota |-> FALSE, storage |-> FALSE],
    [text |-> <<"m", "a", "i", "l", "b", "o", "x", " ", "q", "u", "o", "t", "a", " ", "e", "x", "c", "e", "e", "d", "e", "d">>,
     quota |-> TRUE, storage |-> FALSE],
    [text |-> <<>>,
     quota |-> FALSE, storage |-> FALSE]
  }

Details == {d.text : d \in DetailSamples}

\* Reply codes of RCPT TO.
RcptCodes == {250, 251, 450, 452, 550, 552}

\* Reply codes of MAIL FROM.
MailCodes == {250, 550}

NoReply == [code |-> 0, message |-> <<>>]

NoResult == [valid |-> FALSE, status |-> "none"]

\* A classifier bug: the message is searched as it came, not lower-cased.
RcptStatus_cased(code, message) ==
  LET message_str == message
  IN IF code = 552 \/ Contains(message_str, kw_quota)
          \/ Contains(message_str, kw_over_quota)
     THEN [valid |-> FALSE, status |-> "over_quota"]
     ELSE IF code = 452 \/ Contains(message_str, kw_insufficient)
               \/ Contains(message_str, kw_storage)
               \/ Contains(message_str, kw_disk)
     THEN [valid |-> FALSE, status |-> "insufficient_storage"]
     ELSE IF code = 250 THEN [valid |-> TRUE, status |-> "valid"]
     ELSE [valid |-> FALSE, status |-> "error"]

\* A classifier bug: the function has no last return and falls through.
RcptStatus_fallthrough(code, message) ==
  LET message_str == Lower(message)
  IN IF code = 552 \/ Contains(message_str, kw_quota)
          \/ Contains(message_str, kw_over_quota)
     THEN [valid |-> FALSE, status |-> "over_quota"]
     ELSE IF code = 452 \/ Contains(message_str, kw_insufficient)
               \/ Contains(message_str, kw_storage)
               \/ Contains(message_str, kw_disk)
     THEN [valid |-> FALSE, status |-> "insufficient_storage"]
     ELSE IF code = 250 THEN [valid |-> TRUE, status |-> "valid"]
     ELSE NoResult

\* A classifier bug: the storage test comes before the quota test.
RcptStatus_storagefirst(code, message) ==
  LET message_str == Lower(message)
  IN IF code = 452 \/ Contains(message_str, kw_insufficient)
          \/ Contains(message_str, kw_storage)
          \/ Contains(message_str, kw_disk)
     THEN [valid |-> FALSE, status |-> "insufficient_storage"]
     ELSE IF code = 552 \/ Contains(message_str, kw_quota)
               \/ Contains(message_str, kw_over_quota)
     THEN [valid |-> FALSE, status |-> "over_quota"]
     ELSE IF code = 250 THEN [valid |-> TRUE, status |-> "valid"]
     ELSE [valid |-> FALSE, status |-> "error"]

\* verify_smtp, from the reply of RCPT TO on: message_str = message.decode()
\* .lower(), then the chain of tests; every branch calls server.quit().
RcptStatus(code, message) ==
  LET message_str == Lower(message)
  IN IF code = 552 \/ Contains(message_str, kw_quota)
          \/ Contains(message_str, kw_over_quota)
     THEN [valid |-> FALSE, status |-> "over_quota"]
     ELSE IF code = 452 \/ Contains(message_str, kw_insufficient)
               \/ Contains(message_str, kw_storage)
               \/ Contains(message_str, kw_disk)
     THEN [valid |-> FALSE, status |-> "insufficient_storage"]
     ELSE IF code = 250 THEN [valid |-> TRUE, status |-> "valid"]
     ELSE [valid |-> FALSE, status |-> "error"]

\* What the except clauses of verify_smtp return.
ProbeError == [valid |-> FALSE, status |-> "error"]

\* --------------------------------------------------- verify.py: verify_email
\* '@' in email
HasAt(email) == \E i \in 1..Len(email) : email[i] = "@"

\* The outcomes of dns.resolver.resolve(domain, 'A') that check_domain_exists
\* tells apart.
ALookups == {"ok", "NXDOMAIN", "NoAnswer", "Timeout", "other"}

\* A check_domain_exists that gives up when the domain has no A record.
check_domain_exists_aonly(a, mx) == a = "ok"

\* check_domain_exists: a is the outcome of the A lookup, mx that of the MX
\* lookup made after NoAnswer.
check_domain_exists(a, mx) ==
  CASE a = "ok" -> TRUE
    [] a = "NXDOMAIN" -> FALSE
    [] a = "NoAnswer" -> mx = "ok"
    [] a = "Timeout" -> FALSE
    [] OTHER -> FALSE

\* The hostname check_mx_record expects.
ExpectedMx == <<"s", "m", "t", "p", "i", "n", ".", "r", "z", "o", "n", "e", ".", "d", "e">>

RECURSIVE StripDots(_)
\* str.strip('.')
StripDots(text) ==
  IF text = <<>> THEN <<>>
  ELSE IF Head(text) = "." THEN StripDots(Tail(text))
  ELSE IF text[Len(text)] = "." THEN StripDots(SubSeq(text, 1, Len(text) - 1))
  ELSE text

RECURSIVE InsertByPreference(_, _)
InsertByPreference(rec, sorted) ==
  IF sorted = <<>> THEN <<rec>>
  ELSE IF rec.preference < Head(sorted).preference THEN <<rec>> \o sorted
  ELSE <<Head(sorted)>> \o InsertByPreference(rec, Tail(sorted))

RECURSIVE SortedByPreference(_)
\* sorted(mx_records, key=lambda rec: rec.preference): stable, so records of
\* equal preference keep the order of the answer.
SortedByPreference(records) ==
  IF records = <<>> THEN <<>>
  ELSE InsertByPreference(records[Len(records)],
                          SortedByPreference(SubSeq(records, 1, Len(records) - 1)))

Mx(preference, exchange) == [preference |-> preference, exchange |-> exchange]

\* Answers to the MX query, each with what a reader finds in it: exactly one
\* record, and that one naming the expected host.
MxSamples ==
  {
    [raises |-> "none", records |-> <<Mx(10, <<"s", "m", "t", "p", "i", "n", ".", "r", "z", "o", "n", "e", ".", "d", "e">>)>>,
     single_expected |-> TRUE],
    [raises |-> "none", records |-> <<Mx(5, <<"S", "M", "T", "P", "I", "N", ".", "R", "Z", "O", "N", "E", ".", "D", "E", ".">>)>>,
     single_expected |-> TRUE],
    [raises |-> "none", records |-> <<Mx(10, <<"m", "x", ".", "o", "t", "h", "e", "r", ".", "d", "e">>)>>,
     single_expected |-> FALSE],
    [raises |-> "none", records |-> <<Mx(20, <<"m", "x", ".", "o", "t", "h", "e", "r", ".", "d", "e">>), Mx(10, <<"s", "m", "t", "p", "i", "n", ".", "r", "z", "o", "n", "e", ".", "d", "e">>)>>,
     single_expected |-> FALSE],
    [raises |-> "NoAnswer", records |-> <<>>, single_expected |-> FALSE],
    [raises |-> "NXDOMAIN", records |-> <<>>, single_expected |-> FALSE],
    [raises |-> "other", records |-> <<>>, single_expected |-> FALSE]
  }

MxAnswers == {[raises |-> m.raises, records |-> m.records] : m \in MxSamples}

NotAsked == [raises |-> "unasked", records |-> <<>>]

NoServer == <<>>

\* A check_mx_record that looks at the best record only, whatever their number.
check_mx_record_first(answer) ==
  IF answer.raises # "none" THEN [valid |-> FALSE, mx_server |-> NoServer]
  ELSE LET mx_list == SortedByPreference(answer.records)
           mx_server == Lower(StripDots(mx_list[1].exchange))
       IN  [valid |-> mx_server = ExpectedMx, mx_server |-> mx_server]

\* check_mx_record: [valid, mx_server] for an answer to the MX query.
check_mx_record(answer) ==
  IF answer.raises # "none" THEN [valid |-> FALSE, mx_server |-> NoServer]
  ELSE LET mx_list == SortedByPreference(answer.records)
       IN  IF Len(mx_list) # 1 THEN [valid |-> FALSE, mx_server |-> NoServer]
           ELSE LET mx_server == Lower(StripDots(mx_list[1].exchange))
                IN  [valid |-> mx_server = ExpectedMx, mx_server |-> mx_server]

\* EmailVerificationStats.__init__
NoStats == [total |-> 0, valid |-> 0, invalid_domain |-> 0, invalid_mx |-> 0,
            over_quota |-> 0, insufficient_storage |-> 0, other_errors |-> 0]

\* EmailVerifier.__init__: self.results
NoResults == [valid |-> <<>>, invalid_domain |-> <<>>, invalid_mx |-> <<>>,
              over_quota |-> <<>>, insufficient_storage |-> <<>>,
              other_errors |-> <<>>]

\* What is known of the verify_email call in progress: the steps taken, what
\* the lookups gave, what the checks returned, the status returned and the
\* result list the address went to. What the lookups gave is kept until
\* verify_smtp is called.
NoCall == [steps |-> <<>>, a |-> "none", mx |-> "none", dom |-> "none",
           answer |-> NotAsked, mxv |-> "none", mail |-> "none",
           returned |-> "none", category |-> "none"]

Step(name) == [cur EXCEPT !.steps = Append(@, name)]

\* A bookkeeping bug: an address with another error is listed and not counted.
Categorise_uncounted(category, returned, call) ==
  /\ stats' = IF category = "other_errors" THEN stats
              ELSE [stats EXCEPT ![category] = @ + 1]
  /\ results' = [results EXCEPT ![category] = Append(@, input_emails[vi])]
  /\ cur' = [call EXCEPT !.returned = returned, !.category = category]
  /\ vpc' = "idle"

\* self.stats.<category> += 1; self.results[category].append(email); return
Categorise(category, returned, call) ==
  /\ stats' = [stats EXCEPT ![category] = @ + 1]
  /\ results' = [results EXCEPT ![category] = Append(@, input_emails[vi])]
  /\ cur' = [call EXCEPT !.returned = returned, !.category = category]
  /\ vpc' = "idle"

\* verify_emails_from_file: the file is read and stats.total set; a file that
\* cannot be read ends the call.
VRead ==
  /\ prog = "verify" /\ vpc = "start"
  /\ \E readable \in BOOLEAN :
       IF readable
       THEN vpc' = "idle" /\ stats' = [stats EXCEPT !.total = Len(input_emails)]
       ELSE vpc' = "done" /\ stats' = stats
  /\ UNCHANGED <<prog, prgVars, seqVars, thrVars, dlyVars, conVars, probes, reply, vret, seen,
                 input_emails, vi, cur, results>>

\* for email in emails: verify_email(email), up to the format test.
VEmail ==
  /\ prog = "verify" /\ vpc = "idle"
  /\ vi < Len(input_emails)
  /\ vi' = vi + 1
  /\ IF input_emails[vi'] = <<>> \/ ~HasAt(input_emails[vi'])
     THEN vpc' = "idle" /\ cur' = [NoCall EXCEPT !.returned = "error"]
     ELSE vpc' = "domain" /\ cur' = NoCall
  /\ reply' = NoReply
  /\ vret' = NoResult
  /\ UNCHANGED <<prog, prgVars, seqVars, thrVars, dlyVars, conVars, probes, seen, input_emails, stats,
                 results>>

\* A verify_email that goes on to the MX check after a failed domain check.
VDomain_continue ==
  /\ prog = "verify" /\ vpc = "domain"
  /\ \E a \in ALookups, mx \in {"none", "ok", "failed"} :
       /\ (a = "NoAnswer") = (mx # "none")
       /\ LET call == [Step("DomainCheck") EXCEPT
                         !.a = a, !.mx = mx,
                         !.dom = IF check_domain_exists(a, mx) THEN "ok"
                                 ELSE "failed"]
          IN  /\ vpc' = "mx" /\ cur' = call
              /\ IF call.dom = "ok" THEN UNCHANGED stats
                 ELSE stats' = [stats EXCEPT !.invalid_domain = @ + 1]
              /\ UNCHANGED results
  /\ UNCHANGED <<prog, prgVars, seqVars, thrVars, dlyVars, conVars, probes, reply, vret, seen,
                 input_emails, vi>>

\* Step 1 of verify_email: check_domain_exists(domain).
VDomain ==
  /\ prog = "verify" /\ vpc = "domain"
  /\ \E a \in ALookups, mx \in {"none", "ok", "failed"} :
       /\ (a = "NoAnswer") = (mx # "none")
       /\ LET call == [Step("DomainCheck") EXCEPT
                         !.a = a, !.mx = mx,
                         !.dom = IF check_domain_exists(a, mx) THEN "ok"
                                 ELSE "failed"]
          IN  IF call.dom = "ok"
              THEN vpc' = "mx" /\ cur' = call /\ UNCHANGED <<stats, results>>
              ELSE Categorise("invalid_domain", "invalid_domain", call)
  /\ UNCHANGED <<prog, prgVars, seqVars, thrVars, dlyVars, conVars, probes, reply, vret, seen,
                 input_emails, vi>>

\* Step 2 of verify_email: check_mx_record(domain).
VMx ==
  /\ prog = "verify" /\ vpc = "mx"
  /\ \E answer \in MxAnswers :
       LET call == [Step("EndpointCheck") EXCEPT
                      !.answer = answer,
                      !.mxv = IF check_mx_record(answer).valid THEN "ok"
                              ELSE "failed"]
       IN  IF call.mxv = "ok"
           THEN vpc' = "smtp" /\ cur' = call /\ UNCHANGED <<stats, results>>
           ELSE Categorise("invalid_mx", "invalid_mx", call)
  /\ UNCHANGED <<prog, prgVars, seqVars, thrVars, dlyVars, conVars, probes, reply, vret, seen,
                 input_emails, vi>>

\* Step 3 of verify_email: it calls verify_smtp(email, mx_server). The answers
\* of the lookups are gone by now: only what the two checks returned is left.
VStart ==
  /\ prog = "verify" /\ vpc = "smtp"
  /\ probes' = probes + 1
  /\ reply' = NoReply
  /\ vret' = NoResult
  /\ cur' = [cur EXCEPT !.a = "none", !.mx = "none", !.answer = NotAsked]
  /\ vpc' = "connect"
  /\ UNCHANGED <<prog, prgVars, seqVars, thrVars, dlyVars, conVars, seen, input_emails, vi, stats,
                 results>>

\* server.connect(mx_server); server.ehlo(...). SMTPConnectError, a timeout or
\* a disconnect is caught and returned as "error".
VConnect ==
  /\ prog = "verify" /\ vpc = "connect"
  /\ \E connected \in BOOLEAN :
       IF connected
       THEN vpc' = "mail" /\ vret' = vret
       ELSE vpc' = "returned" /\ vret' = ProbeError
  /\ cur' = Step("connect")
  /\ UNCHANGED <<prog, prgVars, seqVars, thrVars, dlyVars, conVars, probes, reply, seen, input_emails,
                 vi, stats, results>>

\* A verify_smtp that goes on to RCPT TO after MAIL FROM was rejected.
VMail_continue ==
  /\ prog = "verify" /\ vpc = "mail"
  /\ \E raised \in BOOLEAN, code \in MailCodes :
       /\ IF ~raised
          THEN vpc' = "rcpt" /\ vret' = vret
          ELSE vpc' = "returned" /\ vret' = ProbeError
       /\ cur' = [Step("mail") EXCEPT
                    !.mail = IF raised THEN "raised"
                             ELSE IF code = 250 THEN "accepted" ELSE "rejected"]
  /\ UNCHANGED <<prog, prgVars, seqVars, thrVars, dlyVars, conVars, probes, reply, seen, input_emails,
                 vi, stats, results>>

\* code, message = server.mail(...): any code but 250 returns "error"; an
\* exception (disconnect, timeout) does too.
VMail ==
  /\ prog = "verify" /\ vpc = "mail"
  /\ \E raised \in BOOLEAN, code \in MailCodes :
       /\ IF ~raised /\ code = 250
          THEN vpc' = "rcpt" /\ vret' = vret
          ELSE vpc' = "returned" /\ vret' = ProbeError
       /\ cur' = [Step("mail") EXCEPT
                    !.mail = IF raised THEN "raised"
                             ELSE IF code = 250 THEN "accepted" ELSE "rejected"]
  /\ UNCHANGED <<prog, prgVars, seqVars, thrVars, dlyVars, conVars, probes, reply, seen, input_emails,
                 vi, stats, results>>

\* code, message = server.rcpt(email) and the classification of the reply; an
\* exception (no reply: disconnect, timeout) returns "error".
VRcpt ==
  /\ prog = "verify" /\ vpc = "rcpt"
  /\ \/ /\ vret' = ProbeError
        /\ UNCHANGED <<reply, seen>>
     \/ \E code \in RcptCodes, message \in Details :
          /\ reply' = [code |-> code, message |-> message]
          /\ vret' = RcptStatus(code, message)
          /\ seen' = Append(seen, [code |-> code, message |-> message,
                                    status |-> vret'.status])
  /\ cur' = Step("rcpt")
  /\ vpc' = "returned"
  /\ UNCHANGED <<prog, prgVars, seqVars, thrVars, dlyVars, conVars, probes, input_emails, vi, stats,
                 results>>

\* verify_email after verify_smtp returned: the status chooses the counter and
\* the result list.
VClassify ==
  /\ prog = "verify" /\ vpc = "returned"
  /\ IF vret.status = "over_quota"
     THEN Categorise("over_quota", "over_quota", cur)
     ELSE IF vret.status = "insufficient_storage"
     THEN Categorise("insufficient_storage", "insufficient_storage", cur)
     ELSE IF ~vret.valid
     THEN Categorise("other_errors", "error", cur)
     ELSE Categorise("valid", "valid", cur)
  /\ UNCHANGED <<prog, prgVars, seqVars, thrVars, dlyVars, conVars, probes, reply, vret, seen,
                 input_emails, vi>>

\* verify_emails_from_file after the loop: the dashboard is printed and the
\* results are saved.
VSave ==
  /\ prog = "verify" /\ vpc = "idle"
  /\ vi = Len(input_emails)
  /\ vpc' = "done"
  /\ UNCHANGED <<prog, prgVars, seqVars, thrVars, dlyVars, conVars, probes, reply, vret, seen,
                 input_emails, vi, cur, stats, results>>

NextVerify ==
  \/ VRead \/ VEmail \/ VDomain \/ VMx \/ VStart \/ VConnect \/ VMail \/ VRcpt
  \/ VClassify \/ VSave

\* ------------------- send.py: resolve_mx_with_timeout, get_smtp_connection
\* MX records in an answer.
MaxMx == 2

\* Addresses getaddrinfo returns for one family.
MaxAddrs == 2

\* str(rec.exchange) of the hosts that MX records name.
Host1 == <<"m", "1", ".", "d", ".">>
Host2 == <<"m", "2", ".", "d", ".">>

MxRecords == {Mx(10, Host1), Mx(10, Host2), Mx(5, Host2)}

\* What resolver.resolve(domain, 'MX') gives: an exception or an answer of one
\* or more records, in the order of the answer.
MxQueryAnswers ==
  {[raises |-> x, records |-> <<>>] : x \in {"NXDOMAIN", "NoAnswer", "Timeout"}}
    \cup {[raises |-> "none", records |-> r] :
            r \in UNION {[1..n -> MxRecords] : n \in 1..MaxMx}}

\* A resolver that takes the first record of the answer as it came.
resolve_mx_unsorted(answer) ==
  IF answer.raises # "none" THEN [raised |-> TRUE, mx_server |-> NoServer]
  ELSE [raised |-> FALSE, mx_server |-> StripDots(answer.records[1].exchange)]

\* resolve_mx_with_timeout: the exception is raised again, or the host of the
\* first record in the order of preference is returned.
resolve_mx_with_timeout(answer) ==
  IF answer.raises # "none" THEN [raised |-> TRUE, mx_server |-> NoServer]
  ELSE LET mx_record == SortedByPreference(answer.records)[1]
       IN  [raised |-> FALSE, mx_server |-> StripDots(mx_record.exchange)]

\* What becomes of a connection to one address: sock.connect and the SMTP
\* handshake succeed, sock.connect times out, or one of them raises otherwise.
AddrOutcomes == {"ok", "timeout", "refused"}

\* What socket.getaddrinfo gives for one family: gaierror, or one or more
\* addresses, here each with what becomes of a connection to it.
AddrInfos ==
  {[gaierror |-> TRUE, addrs |-> <<>>]}
    \cup {[gaierror |-> FALSE, addrs |-> a] :
            a \in UNION {[1..n -> AddrOutcomes] : n \in 1..MaxAddrs}}

\* The entry appended to connection_attempts after a connection to an address.
AttemptEntry(outcome) ==
  CASE outcome = "ok" -> "SUCCESS"
    [] outcome = "timeout" -> "connection: TIMEOUT"
    [] OTHER -> "connection: FAILED"

RECURSIVE FirstOk(_, _)
FirstOk(addrs, i) ==
  IF i >= Len(addrs) \/ addrs[i] = "ok" THEN i ELSE FirstOk(addrs, i + 1)

\* A family block that goes through the addresses until one connects.
TryFamily_every(info) ==
  IF info.gaierror
  THEN [connected |-> FALSE, tried |-> <<>>, entry |-> "DNS: FAILED"]
  ELSE LET k == FirstOk(info.addrs, 1)
       IN  [connected |-> info.addrs[k] = "ok",
            tried |-> [i \in 1..k |-> i],
            entry |-> AttemptEntry(info.addrs[k])]

\* One family block of get_smtp_connection: getaddrinfo, then a connection to
\* the first address, addrs[0]; tried holds the indexes of the addresses a
\* connection was attempted to.
TryFamily(info) ==
  IF info.gaierror
  THEN [connected |-> FALSE, tried |-> <<>>, entry |-> "DNS: FAILED"]
  ELSE [connected |-> info.addrs[1] = "ok",
        tried |-> <<1>>,
        entry |-> AttemptEntry(info.addrs[1])]

Attempts(family, t) ==
  [i \in 1..Len(t.tried) |->
     [host |-> mx_host, family |-> family, index |-> t.tried[i]]]

\* __main__ / prepare_and_send_batches: resolve_mx_with_timeout(domain).
ResolveMx ==
  /\ prog = "connect" /\ gpc = "resolve"
  /\ LET r == resolve_mx_with_timeout(net.answer)
     IN  IF r.raised
         THEN gpc' = "unresolved" /\ mx_host' = mx_host
         ELSE gpc' = "ipv6" /\ mx_host' = r.mx_server
  /\ UNCHANGED <<prog, prgVars, seqVars, thrVars, dlyVars, verVars, net,
                 connection_attempts, tried>>

\* get_smtp_connection, the IPv6 block: skipped when use_ipv6 is off.
ConnectIPv6 ==
  /\ prog = "connect" /\ gpc = "ipv6"
  /\ IF net.use_ipv6
     THEN LET t == TryFamily(net.v6)
          IN  /\ tried' = tried \o Attempts("IPv6", t)
              /\ connection_attempts' =
                   Append(connection_attempts,
                          [family |-> "IPv6", entry |-> t.entry])
              /\ gpc' = IF t.connected THEN "connected" ELSE "ipv4"
     ELSE /\ connection_attempts' =
               Append(connection_attempts,
                      [family |-> "IPv6", entry |-> "SKIPPED (disabled)"])
          /\ gpc' = "ipv4"
          /\ tried' = tried
  /\ UNCHANGED <<prog, prgVars, seqVars, thrVars, dlyVars, verVars, net, mx_host>>

\* get_smtp_connection, the IPv4 block and the ConnectionError raised with the
\* summary of connection_attempts when it fails too.
ConnectIPv4 ==
  /\ prog = "connect" /\ gpc = "ipv4"
  /\ LET t == TryFamily(net.v4)
     IN  /\ tried' = tried \o Attempts("IPv4", t)
         /\ connection_attempts' =
              Append(connection_attempts, [family |-> "IPv4", entry |-> t.entry])
         /\ gpc' = IF t.connected THEN "connected" ELSE "raised"
  /\ UNCHANGED <<prog, prgVars, seqVars, thrVars, dlyVars, verVars, net, mx_host>>

NextConnect == ResolveMx \/ ConnectIPv6 \/ ConnectIPv4

\* The variables of the connection while another program runs.
ConIdle ==
  /\ net = [answer |-> NotAsked, use_ipv6 |-> TRUE,
            v6 |-> [gaierror |-> TRUE, addrs |-> <<>>],
            v4 |-> [gaierror |-> TRUE, addrs |-> <<>>]]
  /\ gpc = "none"
  /\ mx_host = NoServer
  /\ connection_attempts = <<>>
  /\ tried = <<>>

\* ------------------------------------------------------------------- Init
NumBatches(n, bs) == Cardinality({i \in 0..n : i < n /\ i % bs = 0})

\* The variables of send.py while batch_sender.py runs.
ThrIdle ==
  /\ recipient_emails = <<>>
  /\ domain_groups = <<>>
  /\ dom_i = 0
  /\ cpc = "none"
  /\ enq_i = 0
  /\ q = <<>>
  /\ unfinished = 0
  /\ workers = [w \in Threads |-> NotStarted]
  /\ batch_log = <<>>
  /\ mx_log = <<>>

NoArgs == [completed_batches |-> 0, total_batches |-> 0]

PrgIdle ==
  /\ fpc = "none"
  /\ args = NoArgs
  /\ ret = NoProgress

\* The variables of calculate_delay and verify.py while a dispatch script runs.
OffIdle ==
  /\ settings = <<>>
  /\ dpc = "none"
  /\ delay = NoDelay
  /\ vpc = "none"
  /\ probes = 0
  /\ reply = NoReply
  /\ vret = NoResult
  /\ seen = <<>>
  /\ input_emails = <<>>
  /\ vi = 0
  /\ cur = NoCall
  /\ stats = NoStats
  /\ results = NoResults
  /\ ConIdle
  /\ PrgIdle

\* The variables of batch_sender.py while send.py runs (batch_size is shared).
SeqIdle ==
  /\ waits = 0
  /\ email_list = <<>>
  /\ rejects = {}
  /\ connFail = {}
  /\ quitFail = {}
  /\ pc = "none"
  /\ runs = 0
  /\ sent_count = 0
  /\ failed_count = 0
  /\ batches = <<>>
  /\ start_batch = 0
  /\ batch_num = 0
  /\ pos = 0
  /\ batch_stats = [sent |-> 0, failed |-> 0]
  /\ progress_file = [exists |-> FALSE, lines |-> <<>>]
  /\ delivered = <<>>
  /\ attempts = <<>>
  /\ max_recorded = 0
  /\ last_ckpt = NoProgress

\* batch_sender.py is launched on a validated recipient list.
InitSeq ==
  /\ prog = "batch_sender"
  /\ \E n \in 0..MaxLen : email_list = SubSeq(CanonList, 1, n)
  /\ batch_size \in 1..MaxBatchSize
  /\ rejects \in SUBSET Range(email_list)
  /\ connFail \in SUBSET (1..NumBatches(Len(email_list), batch_size))
  /\ quitFail \in {{}, (1..NumBatches(Len(email_list), batch_size)) \ connFail}
  /\ pc = "menu"
  /\ runs = 0
  /\ sent_count = 0
  /\ failed_count = 0
  /\ batches = <<>>
  /\ start_batch = 0
  /\ batch_num = 0
  /\ pos = 0
  /\ batch_stats = [sent |-> 0, failed |-> 0]
  /\ progress_file = [exists |-> FALSE, lines |-> <<>>]
  /\ delivered = [a \in Range(email_list) |-> 0]
  /\ waits = 0
  /\ attempts = [b \in 1..NumBatches(Len(email_list), batch_size) |-> 0]
  /\ max_recorded = 0
  /\ last_ckpt = NoProgress
  /\ ThrIdle
  /\ OffIdle

\* send.py is launched on a recipient file.
InitThr ==
  /\ prog = "send"
  /\ \E n \in 0..MaxLen : recipient_emails \in [1..n -> Addresses]
  /\ batch_size \in 1..MaxBatchSize
  /\ domain_groups = <<>>
  /\ dom_i = 0
  /\ cpc = "start"
  /\ enq_i = 0
  /\ q = <<>>
  /\ unfinished = 0
  /\ workers = [w \in Threads |-> NotStarted]
  /\ batch_log = <<>>
  /\ mx_log = <<>>
  /\ SeqIdle
  /\ OffIdle

Init == InitSeq \/ InitThr

Next == NextSeq \/ NextThr

\* Either script.
Spec == Init /\ [][Next]_vars

\* batch_sender.py alone.
SpecSeq == InitSeq /\ [][NextSeq]_vars

\* send.py alone.
SpecThr == InitThr /\ [][NextThr]_vars

\* send.py with its threads scheduled: a step that can be taken is taken in the
\* end, by the main thread or by a worker.
SpecThrFair == InitThr /\ [][NextThr]_vars /\ WF_vars(NextThr)

\* calculate_delay is called under some DELIVERY_SETTINGS.
InitDelay ==
  /\ prog = "calculate_delay"
  /\ \E K \in SUBSET SettingKeys, t \in BOOLEAN, m \in MinDelays, r \in Rates,
        b \in BatchSizes :
       settings = [k \in K |->
                     CASE k = "enable_throttling" -> t
                       [] k = "batch_delay_seconds" -> m
                       [] k = "emails_per_hour" -> r
                       [] k = "batch_size" -> b]
  /\ dpc = "call"
  /\ delay = NoDelay
  /\ vpc = "none" /\ probes = 0 /\ reply = NoReply /\ vret = NoResult /\ seen = <<>>
  /\ input_emails = <<>> /\ vi = 0 /\ cur = NoCall /\ stats = NoStats
  /\ results = NoResults
  /\ ConIdle
  /\ batch_size = 1
  /\ SeqIdle
  /\ ThrIdle
  /\ PrgIdle

\* calculate_delay alone.
SpecDelay == InitDelay /\ [][NextDelay]_vars

\* The lists of addresses an input file can hold: its stripped, non-blank
\* lines.
InputFiles ==
  UNION {[1..n -> {Addr("a", DomX), BadAddress}] : n \in 0..MaxProbes}

\* verify.py: main() makes an EmailVerifier and calls verify_emails_from_file.
InitVerify ==
  /\ prog = "verify"
  /\ vpc = "start"
  /\ input_emails \in InputFiles
  /\ vi = 0
  /\ cur = NoCall
  /\ stats = NoStats
  /\ results = NoResults
  /\ probes = 0
  /\ reply = NoReply
  /\ vret = NoResult
  /\ seen = <<>>
  /\ settings = <<>> /\ dpc = "none" /\ delay = NoDelay
  /\ ConIdle
  /\ batch_size = 1
  /\ SeqIdle
  /\ ThrIdle
  /\ PrgIdle

\* verify.py alone.
SpecVerify == InitVerify /\ [][NextVerify]_vars

\* send.py: a domain's MX is resolved and a worker connects to the host.
InitConnect ==
  /\ prog = "connect"
  /\ \E answer \in MxQueryAnswers, use_ipv6 \in BOOLEAN, v6 \in AddrInfos,
        v4 \in AddrInfos :
       net = [answer |-> answer, use_ipv6 |-> use_ipv6, v6 |-> v6, v4 |-> v4]
  /\ gpc = "resolve"
  /\ mx_host = NoServer
  /\ connection_attempts = <<>>
  /\ tried = <<>>
  /\ settings = <<>> /\ dpc = "none" /\ delay = NoDelay
  /\ vpc = "none" /\ probes = 0 /\ reply = NoReply /\ vret = NoResult /\ seen = <<>>
  /\ input_emails = <<>> /\ vi = 0 /\ cur = NoCall /\ stats = NoStats
  /\ results = NoResults
  /\ batch_size = 1
  /\ SeqIdle
  /\ ThrIdle
  /\ PrgIdle

\* The resolution and the connection alone.
SpecConnect == InitConnect /\ [][NextConnect]_vars

\* --------------------------- batch_sender.py: save_progress, load_progress
\* The numbers a checkpoint is written with: of one, two and three digits.
Counts == {0, 1, 9, 10, 12, 100, 105}

\* save_progress(completed_batches, total_batches), on a file that does not
\* exist yet or holds an earlier checkpoint.
PSave ==
  /\ prog = "progress" /\ fpc = "save"
  /\ progress_file' = [exists |-> TRUE,
                       lines |-> ProgressLines(args.completed_batches,
                                               args.total_batches,
                                               sent_count, failed_count)]
  /\ fpc' = "load"
  /\ UNCHANGED <<prog, thrVars, dlyVars, verVars, conVars, args, ret, waits, email_list,
                 batch_size, rejects, connFail, quitFail, pc, runs, sent_count, failed_count,
                 batches, start_batch, batch_num, pos, batch_stats, delivered, attempts,
                 max_recorded, last_ckpt>>

\* load_progress()
PLoad ==
  /\ prog = "progress" /\ fpc = "load"
  /\ ret' = load_progress(progress_file)
  /\ fpc' = "done"
  /\ UNCHANGED <<prog, seqVars, thrVars, dlyVars, verVars, conVars, args>>

NextProgress == PSave \/ PLoad

\* A sender with some counts calls save_progress with some arguments.
InitProgress ==
  /\ prog = "progress"
  /\ fpc = "save"
  /\ args \in [completed_batches : Counts, total_batches : Counts]
  /\ ret = NoProgress
  /\ sent_count \in Counts
  /\ failed_count \in Counts
  /\ progress_file \in {[exists |-> FALSE, lines |-> <<>>],
                        [exists |-> TRUE, lines |-> ProgressLines(1, 1, 1, 0)]}
  /\ waits = 0 /\ email_list = <<>> /\ batch_size = 1 /\ rejects = {}
  /\ connFail = {} /\ quitFail = {} /\ pc = "none" /\ runs = 0
  /\ batches = <<>> /\ start_batch = 0 /\ batch_num = 0 /\ pos = 0
  /\ batch_stats = [sent |-> 0, failed |-> 0]
  /\ delivered = <<>> /\ attempts = <<>> /\ max_recorded = 0
  /\ last_ckpt = NoProgress
  /\ ThrIdle
  /\ settings = <<>> /\ dpc = "none" /\ delay = NoDelay
  /\ vpc = "none" /\ probes = 0 /\ reply = NoReply /\ vret = NoResult /\ seen = <<>>
  /\ input_emails = <<>> /\ vi = 0 /\ cur = NoCall /\ stats = NoStats
  /\ results = NoResults
  /\ ConIdle

\* save_progress and load_progress alone.
SpecProgress == InitProgress /\ [][NextProgress]_vars

\* ------------------------------------------------------------- properties
\* send_batch is at work on a batch.
InBatch == pc \in {"connect", "send", "quit"}

\* What one call of send_batch on batch number b returns when nothing
\* interrupts it, as a function of the inputs.
BatchOutcome(batch, b) ==
  IF b \in connFail THEN [sent |-> 0, failed |-> Len(batch)]
  ELSE LET ok == Cardinality({i \in 1..Len(batch) : batch[i] \notin rejects})
           rejected == Len(batch) - ok
       IN [sent |-> ok,
           failed |-> rejected + (IF b \in quitFail THEN Len(batch) - ok ELSE 0)]

\* The totals of one uninterrupted run over the inputs.
UninterruptedTotals ==
  LET bs == create_batches(email_list, batch_size)
      out == [b \in 1..Len(bs) |-> BatchOutcome(bs[b], b)]
  IN [sent |-> SumOver([b \in 1..Len(bs) |-> out[b].sent], 1..Len(bs)),
      failed |-> SumOver([b \in 1..Len(bs) |-> out[b].failed], 1..Len(bs))]

\* C1 (as claimed): over a campaign that is interrupted and resumed, no recipient
\* is delivered the message more than once.
C1_NoRecipientTwice == \A a \in DOMAIN delivered : delivered[a] <= 1

\* C2: a run resumed from a checkpoint with completed-batch index k works only on
\* batches k+1..total, and a campaign that reaches its end, interrupted and
\* resumed or not, ends with the sent and failed totals of one uninterrupted run
\* over the same inputs.
C2_ResumeEquivalent ==
  /\ InBatch => CurBatch > last_ckpt.completed_batches
  /\ pc = "done" =>
       /\ sent_count = UninterruptedTotals.sent
       /\ failed_count = UninterruptedTotals.failed

\* A resumed run that started in the middle of the list has finished, with
\* deliveries and failures.
C2_Witness ==
  /\ pc = "done" /\ runs = 2
  /\ start_batch > 0 /\ start_batch < Len(batches)
  /\ sent_count > 0 /\ failed_count > 0

\* C5 (as claimed): the completed-batch index of the checkpoint never exceeds the
\* batches fully attempted, and no batch whose completion has been recorded is
\* attempted again.
C5_RecordedNeverAgain ==
  /\ Readable(progress_file) =>
       \A b \in 1..Recorded(progress_file).completed_batches :
         b \in DOMAIN attempts /\ attempts[b] >= 1
  /\ InBatch => CurBatch > max_recorded

\* C7: every checkpoint a run writes holds sent and failed counts at least those
\* of the checkpoint the run wrote before it, or loaded when it resumed.
C7_CountsNeverDecrease ==
  [][(progress_file' # progress_file /\ Readable(progress_file')) =>
       /\ Recorded(progress_file').sent >= last_ckpt.sent
       /\ Recorded(progress_file').failed >= last_ckpt.failed]_vars

\* A resumed run has written a checkpoint over the one it loaded.
C7_Witness ==
  /\ runs = 2 /\ start_batch > 0 /\ batch_num > start_batch
  /\ Readable(progress_file)
  /\ Recorded(progress_file).sent > 0 /\ Recorded(progress_file).failed > 0

\* C8: with an endpoint that accepts everything, an uninterrupted run over N
\* addresses with batch size B ends with sent = N, failed = 0 and a checkpoint
\* index of ceil(N/B); every batch but the last holds B addresses.
C8_AcceptAll ==
  (pc = "done" /\ runs = 1 /\ rejects = {} /\ connFail = {} /\ quitFail = {}) =>
    /\ sent_count = Len(email_list)
    /\ failed_count = 0
    /\ load_progress(progress_file).completed_batches =
         estimate_total_batches(Len(email_list), batch_size)
    /\ \A b \in 1..Len(batches) :
         Len(batches[b]) = IF b < Len(batches) THEN batch_size
                           ELSE Len(email_list) - batch_size * (Len(batches) - 1)

\* The scaled scenario: 3 addresses, batch size 2, batches of sizes [2, 1].
C8_Witness ==
  /\ pc = "done" /\ runs = 1 /\ rejects = {} /\ connFail = {} /\ quitFail = {}
  /\ Len(email_list) = 3 /\ batch_size = 2
  /\ Len(batches) = 2 /\ Len(batches[1]) = 2 /\ Len(batches[2]) = 1


\* The batches of domain group d that have been enqueued.
Enqueued(d) == {id \in DOMAIN batch_log : id[1] = d}

\* The enqueueing loop of domain group d has ended.
EnqueueOver(d) ==
  /\ Enqueued(d) # {}
  /\ d < dom_i \/ (d = dom_i /\ cpc \in {"join", "join_threads"})

\* send.py is between two domain groups, or past the last one: the list is
\* grouped and no worker runs.
BetweenDomains == prog = "send" /\ cpc \in {"domain", "finished"}

\* The batches send.py makes of the whole list: the slices of every domain group.
AllDomainBatches ==
  Flatten([g \in 1..Len(domain_groups) |->
             DomainBatches(domain_groups[g].emails, batch_size)])

\* C3: the batches made of a recipient list hold every entry of the list exactly
\* once. create_batches keeps the order of the list; prepare_and_send_batches
\* puts every entry in a batch of its own domain, and the batches it has
\* enqueued are those slices (looked at whenever a domain group is over).
C3_PartitionExact ==
  /\ (prog = "batch_sender" /\ pc \in RunPcs \cup {"done"}) =>
       Flatten(batches) = email_list
  /\ BetweenDomains =>
       /\ \A a \in Addresses :
            Occurrences(Flatten(AllDomainBatches), a) =
              Occurrences(recipient_emails, a)
       /\ \A g \in 1..Len(domain_groups) :
            \A i \in 1..Len(domain_groups[g].emails) :
              DomainOf(domain_groups[g].emails[i]) = domain_groups[g].domain
       /\ \A g, h \in 1..Len(domain_groups) :
            domain_groups[g].domain = domain_groups[h].domain => g = h
       /\ \A id \in DOMAIN batch_log :
            batch_log[id].emails =
              DomainBatches(domain_groups[id[1]].emails, batch_size)[id[2]]

\* A list of three entries over two domains has been dispatched in three batches.
C3_Witness ==
  /\ prog = "send" /\ cpc = "finished"
  /\ Len(recipient_emails) = 3 /\ Len(domain_groups) = 2
  /\ Cardinality(DOMAIN batch_log) = 3

\* The sizes of a list of batches made of n entries with batch size bs.
SizesOk(bb, n, bs) ==
  /\ Len(bb) = estimate_total_batches(n, bs)
  /\ Len(bb) * bs >= n
  /\ (Len(bb) - 1) * bs < n
  /\ \A b \in 1..Len(bb) :
       /\ Len(bb[b]) >= 1 /\ Len(bb[b]) <= bs
       /\ b < Len(bb) => Len(bb[b]) = bs

\* C4: N entries with batch size B make ceil(N/B) batches, the total_batches of
\* get_campaign_estimate; no batch holds more than B entries and only the last
\* one (of each domain, in send.py) may hold fewer.
C4_BatchCount ==
  /\ (prog = "batch_sender" /\ pc \in RunPcs \cup {"done"}) =>
       SizesOk(batches, Len(email_list), batch_size)
  /\ BetweenDomains =>
       \A d \in 1..Len(domain_groups) :
         EnqueueOver(d) =>
           /\ Enqueued(d) = {<<d, n>> : n \in
                1..estimate_total_batches(Len(domain_groups[d].emails), batch_size)}
           /\ SizesOk([n \in 1..Cardinality(Enqueued(d)) |-> batch_log[<<d, n>>].emails],
                      Len(domain_groups[d].emails), batch_size)

\* A list of three entries has been cut into batches of two and one.
C4_Witness ==
  /\ prog = "batch_sender" /\ pc = "done"
  /\ Len(email_list) = 3 /\ batch_size = 2
  /\ Len(batches) = 2 /\ Len(batches[2]) = 1


\* batch_sender.py: whenever the run has moved on from a batch (to the delay, to
\* the next batch, to the end), the progress file holds that batch's number and
\* the current counts.
SeqCheckpointCurrent ==
  (/\ prog = "batch_sender"
   /\ pc = "delay" \/ (pc \in {"loop", "done"} /\ batch_num > start_batch)) =>
    /\ Readable(progress_file)
    /\ Recorded(progress_file) =
         [completed_batches |-> IF pc = "delay" THEN batch_num + 1 ELSE batch_num,
          sent |-> sent_count,
          failed |-> failed_count]

\* C6 (as claimed): after every completed batch a checkpoint reflecting it is
\* persisted, in the sequential sender and in the threaded dispatcher.
C6_CheckpointAfterEveryBatch ==
  /\ SeqCheckpointCurrent
  /\ (prog = "send" /\ \E id \in DOMAIN batch_log : batch_log[id].dones >= 1) =>
       Readable(progress_file)

\* C6 (amended): the sequential sender persists a checkpoint reflecting every
\* completed batch, failed or not, before it moves on; the threaded dispatcher
\* writes no checkpoint.
C6_SequentialCheckpoint ==
  /\ SeqCheckpointCurrent
  /\ prog = "send" => ~progress_file.exists

\* The sequential sender has moved on from a batch whose connection failed.
C6_Witness ==
  /\ prog = "batch_sender" /\ pc = "delay"
  /\ CurBatch \in connFail
  /\ Recorded(progress_file).failed > 0

\* The domain groups whose workers have all been joined.
Joined(d) == Enqueued(d) # {} /\ d < dom_i

\* C9: every enqueued batch is taken by exactly one worker and attempted exactly
\* once: never by two workers, never twice, and none is left when the domain's
\* queue has been joined.
C9_ExactlyOnce ==
  /\ \A id \in DOMAIN batch_log :
       /\ batch_log[id].takes <= 1
       /\ batch_log[id].dones <= batch_log[id].takes
       /\ Cardinality({w \in Threads : workers[w].batch = id}) <= 1
  /\ \A d \in 1..Len(domain_groups) :
       (Joined(d) \/ (d = dom_i /\ cpc = "join_threads")) =>
         \A id \in Enqueued(d) :
           batch_log[id].takes = 1 /\ batch_log[id].dones = 1

\* A domain of two batches is over, one batch failed to connect, one was sent.
C9_Witness ==
  /\ prog = "send" /\ cpc = "finished"
  /\ \E d \in 1..Len(domain_groups) :
       /\ <<d, 1>> \in DOMAIN batch_log
       /\ <<d, 2>> \in DOMAIN batch_log
       /\ batch_log[<<d, 1>>].outcome = "conn_failed"
       /\ batch_log[<<d, 2>>].outcome = "sent"

\* batch_sender.py: a batch whose connection failed is counted failed as a whole,
\* the counters are the last checkpoint's plus the batch's, and a run that ends
\* has attempted every batch.
SeqFailureIsLocal ==
  prog = "batch_sender" =>
    /\ (pc = "save_open" /\ CurBatch \in connFail) =>
         batch_stats = [sent |-> 0, failed |-> Len(batches[CurBatch])]
    /\ pc = "save_open" =>
         /\ sent_count = last_ckpt.sent + batch_stats.sent
         /\ failed_count = last_ckpt.failed + batch_stats.failed
    /\ pc = "done" => \A b \in 1..Len(batches) : attempts[b] >= 1

\* send.py: a thread ends only on the None put after the join, and every batch
\* of a joined domain has been marked done once.
ThrFailureIsLocal ==
  prog = "send" =>
    /\ \A w \in Threads : workers[w].state = "exited" => cpc = "join_threads"
    /\ \A d \in 1..Len(domain_groups) :
         Joined(d) => \A id \in Enqueued(d) : batch_log[id].dones = 1

\* C10 (as claimed): a batch whose connection failed is marked failed in the
\* aggregate counts, in both scripts.
C10_FailedBatchCounted ==
  /\ SeqFailureIsLocal
  /\ ThrFailureIsLocal
  /\ prog = "send" =>
       \A id \in DOMAIN batch_log :
         batch_log[id].outcome = "conn_failed" =>
           failed_count >= Len(batch_log[id].emails)

\* C10 (amended): a connection failure aborts only the batch in flight; the
\* sequential sender counts the whole batch failed and goes on with the next
\* batch; the threaded dispatcher only logs it (it keeps no counts), its worker
\* stays alive and the other batches are processed.
C10_FailureIsLocal ==
  /\ SeqFailureIsLocal
  /\ ThrFailureIsLocal
  /\ prog = "send" => sent_count = 0 /\ failed_count = 0

\* A worker whose connection failed has taken a later batch and sent it.
C10_Witness ==
  /\ prog = "send"
  /\ \E w \in Threads : workers[w].failed_before /\ workers[w].state = "quit"
  /\ \E id \in DOMAIN batch_log : batch_log[id].outcome = "conn_failed"


\* C11 (as claimed): a worker never takes a unit of work while it still holds a
\* connection it opened for an earlier one; the connection is closed on the
\* success path, on the failure path and after an exception.
C11_ConnectionClosed ==
  prog = "send" =>
    \A w \in Threads : workers[w].state = "connect" => ~workers[w].conn

\* The domain groups whose resolution failed.
FailedDomains == {mx_log[i].domain : i \in {j \in 1..Len(mx_log) : ~mx_log[j].resolved}}

\* send.py: a domain whose resolution failed gets no batch, every domain group is
\* resolved at most once, in the order of the groups, and a run that ends has
\* tried every group.
ResolutionFailureSkips ==
  prog = "send" =>
    /\ \A d \in FailedDomains : Enqueued(d) = {}
    /\ \A i \in 1..Len(mx_log) : mx_log[i].domain = i
    /\ Len(mx_log) <= Len(domain_groups)
    /\ cpc = "finished" => Len(mx_log) = Len(domain_groups)

\* C12 (as claimed): when the resolution of a domain fails, all the recipients of
\* its group are recorded as failed in the aggregate counts, no batch of it is
\* enqueued, the resolution is not retried and dispatch goes on with the next
\* domain group.
C12_FailedDomainCounted ==
  /\ ResolutionFailureSkips
  /\ prog = "send" =>
       failed_count >=
         SumOver([d \in FailedDomains |-> Len(domain_groups[d].emails)], FailedDomains)

\* C12 (amended): when the resolution of a domain fails, no batch of that domain
\* is enqueued or sent, the resolution is not retried in the run and dispatch
\* goes on with the next domain group; the failure is only logged, the threaded
\* dispatcher keeps no aggregate counts.
C12_FailedDomainSkipped ==
  /\ ResolutionFailureSkips
  /\ prog = "send" => sent_count = 0 /\ failed_count = 0

\* The first of two domains failed to resolve, the second was dispatched.
C12_Witness ==
  /\ prog = "send" /\ cpc = "finished"
  /\ Len(domain_groups) = 2 /\ Len(mx_log) = 2
  /\ ~mx_log[1].resolved /\ mx_log[2].resolved
  /\ <<2, 1>> \in DOMAIN batch_log
  /\ batch_log[<<2, 1>>].outcome = "sent"

\* C13 (as claimed): a recipient list with malformed entries never aborts the
\* run; the malformed entries are left out and every well-formed entry of the
\* list is dispatched.
C13_MalformedNotFatal ==
  prog = "send" =>
    /\ cpc # "crashed"
    /\ cpc \in {"domain", "finished"} =>
         \A a \in GoodAddresses :
           Occurrences(Flatten(AllDomainBatches), a) = Occurrences(recipient_emails, a)

\* C14 (as claimed): a checkpoint file that cannot be written does not end the
\* run: a run that started ends only by completing the campaign, with every
\* batch attempted and the final counts reported, or by the operator's interrupt.
C14_UnwritableNotFatal ==
  prog = "batch_sender" => pc # "crashed"

\* The recipients among the first n of the batch in flight that the endpoint
\* rejects.
RejectedUpTo(n) ==
  Cardinality({i \in 1..n : batches[CurBatch][i] \in rejects})

\* C15: a recipient's rejection does not end the batch. While send_batch loops,
\* every recipient before the current one has been attempted and counted once,
\* failed if rejected and sent otherwise; when the loop is over, every recipient
\* of the batch has been attempted, the batch's failed count is the number of
\* rejected recipients and every other recipient has been delivered to.
C15_RejectionDoesNotAbort ==
  prog = "batch_sender" =>
    /\ pc = "send" =>
         /\ batch_stats.failed = RejectedUpTo(pos - 1)
         /\ batch_stats.sent = (pos - 1) - RejectedUpTo(pos - 1)
    /\ pc = "quit" =>
         /\ pos = Len(batches[CurBatch])
         /\ batch_stats.failed = RejectedUpTo(Len(batches[CurBatch]))
         /\ batch_stats.sent + batch_stats.failed = Len(batches[CurBatch])
         /\ \A i \in 1..Len(batches[CurBatch]) :
              batches[CurBatch][i] \notin rejects =>
                delivered[batches[CurBatch][i]] >= 1

\* The first recipient of a batch of two was rejected and the second one was
\* delivered to.
C15_Witness ==
  /\ prog = "batch_sender" /\ pc = "quit"
  /\ Len(batches[CurBatch]) = 2
  /\ batches[CurBatch][1] \in rejects
  /\ batches[CurBatch][2] \notin rejects
  /\ batch_stats = [sent |-> 1, failed |-> 1]
  /\ delivered[batches[CurBatch][2]] = 1

\* The deliveries made in the campaign so far.
Deliveries == SumOver(delivered, DOMAIN delivered)

\* C16 (as claimed): after an operator interrupt the run has finished the batch
\* it was sending and persisted a final checkpoint, so the progress file counts
\* exactly the deliveries made.
C16_InterruptConsistent ==
  (prog = "batch_sender" /\ pc = "killed" /\ runs = 1) =>
    /\ load_progress(progress_file).sent = Deliveries
    /\ load_progress(progress_file).completed_batches =
         Cardinality({b \in DOMAIN attempts : attempts[b] >= 1})

\* The settings calculate_delay works with, defaults applied.
ThrottlingOn == DictGet(settings, "enable_throttling", TRUE)

MinimumDelay == Rat(DictGet(settings, "batch_delay_seconds", 60), 1)

TargetPerHour == DictGet(settings, "emails_per_hour", 100)

\* batch_size / (target_emails_per_hour / 3600)
BatchTime == Rat(DictGet(settings, "batch_size", 50) * 3600, TargetPerHour)

\* d is the larger of the minimum delay and the batch time.
IsMaxDelay(d) ==
  /\ RatGeq(d, MinimumDelay)
  /\ RatGeq(d, BatchTime)
  /\ RatEq(d, MinimumDelay) \/ RatEq(d, BatchTime)

\* C17 (as claimed): for every configuration, throttling on or off, the delay
\* calculate_delay returns is max(minimum delay, batch_size / (target / 3600)).
C17_DelayIsMax ==
  (prog = "calculate_delay" /\ dpc = "returned" /\ TargetPerHour > 0) =>
    IsMaxDelay(delay)

\* C17 (amended): with throttling enabled (and a positive target) the delay is
\* max(minimum delay, batch_size / (target / 3600)); with throttling disabled
\* it is the configured minimum delay, whatever batch size and target are.
C17_DelayThrottled ==
  prog = "calculate_delay" =>
    /\ dpc = "returned" =>
         IF ThrottlingOn THEN TargetPerHour > 0 /\ IsMaxDelay(delay)
         ELSE RatEq(delay, MinimumDelay)
    /\ dpc = "raised" => ThrottlingOn /\ TargetPerHour = 0

\* Under the defaults (50 per batch, 100 per hour, 60 seconds) the delay is the
\* batch time, 1800 seconds.
C17_Witness ==
  /\ prog = "calculate_delay" /\ dpc = "returned"
  /\ settings = <<>>
  /\ RatEq(delay, Rat(1800, 1))
  /\ ~RatEq(delay, MinimumDelay)

\* The 2xx reply codes.
Is2xx(code) == code >= 200 /\ code <= 299

\* C18 (as claimed): a reply with a 2xx code is classified accepted ("valid")
\* whatever its detail text.
C18_2xxAccepted ==
  \A i \in 1..Len(seen) : Is2xx(seen[i].code) => seen[i].status = "valid"

\* What a reader finds in a detail text.
KeywordsIn(text) == CHOOSE d \in DetailSamples : d.text = text

\* The rule for the replies that are not 2xx.
RejectionRule(code, text) ==
  IF code = 552 \/ KeywordsIn(text).quota THEN "over_quota"
  ELSE IF code = 452 \/ KeywordsIn(text).storage THEN "insufficient_storage"
  ELSE "error"

\* C19: a reply that is not 2xx is classified over_quota for code 552 or a quota
\* keyword in its text, in any case of letters; else insufficient_storage for
\* code 452 or a storage or disk keyword; else "error" (rejected).
C19_RejectionRule ==
  \A i \in 1..Len(seen) :
    ~Is2xx(seen[i].code) =>
      seen[i].status = RejectionRule(seen[i].code, seen[i].message)

\* A reply 450 whose text holds a quota keyword in capitals was classified
\* over_quota, and a reply 550 without keyword "error".
C19_Witness ==
  /\ Len(seen) = 2
  /\ seen[1].code = 450 /\ KeywordsIn(seen[1].message).quota
  /\ Lower(seen[1].message) # seen[1].message
  /\ seen[1].status = "over_quota"
  /\ seen[2].code = 550 /\ seen[2].status = "error"

\* The categories verify_smtp returns.
Statuses == {"valid", "over_quota", "insufficient_storage", "error"}

\* C20: every probe returns one of the categories, for every reply and when a
\* step got no reply at all, valid exactly for the category "valid"; and a reply
\* that comes again is given the same category.
C20_TotalDeterministic ==
  /\ (prog = "verify" /\ vpc = "returned") =>
       /\ vret.status \in Statuses
       /\ vret.valid <=> vret.status = "valid"
  /\ \A i \in 1..Len(seen) : seen[i].status \in Statuses
  /\ \A i, j \in 1..Len(seen) :
       (seen[i].code = seen[j].code /\ seen[i].message = seen[j].message) =>
         seen[i].status = seen[j].status

\* The same reply 550 was classified in two probes.
C20_Witness ==
  /\ prog = "verify" /\ vpc = "returned"
  /\ Len(seen) = 2
  /\ seen[1].code = seen[2].code /\ seen[1].message = seen[2].message
  /\ seen[1].code = 550

\* batch_sender.py: send_single_email for a recipient whose RCPT TO got the
\* reply (code, message): send_message raises when the recipient is refused
\* (any code but 250 and 251), every exception is caught and gives False.
send_single_email(code, message) == code \in {250, 251}

\* A dispatch path that classifies the reply as the validation path does.
DispatchStatus_classified(code, message) == RcptStatus(code, message).status

\* What the sequential sender makes of the reply, in the words of verify_smtp:
\* True is counted as sent ("valid"), False as failed ("error"). send.py only
\* logs the exception of a batch.
DispatchStatus(code, message) ==
  IF send_single_email(code, message) THEN "valid" ELSE "error"

\* C21 as stated: the dispatch path and the validation path give every reply
\* the same category, so (552, "mailbox quota exceeded") is over_quota in both.
C21_SameClassification ==
  prog = "verify" =>
    \A i \in 1..Len(seen) :
      DispatchStatus(seen[i].code, seen[i].message) = seen[i].status

\* C21: only the validation path classifies. It files a 552 reply, whatever its
\* text, under over_quota; the dispatch path knows sent and failed only, so the
\* two agree on the replies the validation path accepts and on no reply that it
\* files under over_quota or insufficient_storage with a refusing code.
C21_OnlyValidationClassifies ==
  prog = "verify" =>
    \A i \in 1..Len(seen) :
      LET r == seen[i]
          d == DispatchStatus(r.code, r.message)
      IN  /\ r.code = 552 => r.status = "over_quota" /\ d = "error"
          /\ d \in {"valid", "error"}
          /\ r.status = "valid" => d = "valid"
          /\ ~Is2xx(r.code) => d = "error"

C21_Witness ==
  /\ prog = "verify"
  /\ \E i \in 1..Len(seen) :
       /\ seen[i].code = 552
       /\ seen[i].message = <<"m", "a", "i", "l", "b", "o", "x", " ", "q", "u", "o", "t", "a", " ", "e", "x", "c", "e", "e", "d", "e", "d">>
       /\ seen[i].status = "over_quota"
       /\ DispatchStatus(seen[i].code, seen[i].message) = "error"

\* The steps of verify_email and of verify_smtp, in the order of the code.
AllSteps == <<"DomainCheck", "EndpointCheck", "connect", "mail", "rcpt">>

StepTaken(name) == \E i \in 1..Len(cur.steps) : cur.steps[i] = name

\* C22: validation is sequential and short-circuits: the steps taken for an
\* address are a prefix of the order DomainCheck, EndpointCheck, probe; after a
\* failed DomainCheck neither EndpointCheck nor the probe is made, after a failed
\* EndpointCheck the probe is not made.
C22_ShortCircuit ==
  prog = "verify" =>
    /\ cur.steps = SubSeq(AllSteps, 1, Len(cur.steps))
    /\ cur.dom = "failed" =>
         /\ cur.steps = <<"DomainCheck">>
         /\ vpc \in {"idle", "done"}
    /\ cur.mxv = "failed" =>
         /\ cur.steps = <<"DomainCheck", "EndpointCheck">>
         /\ vpc \in {"idle", "done"}
    /\ StepTaken("EndpointCheck") => cur.dom = "ok"
    /\ StepTaken("connect") => cur.dom = "ok" /\ cur.mxv = "ok"

C22_Witness ==
  /\ prog = "verify" /\ vpc = "done"
  /\ vi = 2
  /\ cur.dom = "ok" /\ cur.mxv = "failed"
  /\ Len(results.invalid_domain) = 1

\* What a reader finds in the answer to the MX query of this address.
SingleExpected ==
  (CHOOSE m \in MxSamples :
     m.raises = cur.answer.raises /\ m.records = cur.answer.records).single_expected

\* C23: EndpointCheck succeeds only when the domain has exactly one MX record
\* and its hostname is the expected one; any other answer files the address
\* under invalid_mx and no connection is attempted.
C23_SingleExpectedEndpoint ==
  prog = "verify" /\ cur.mxv # "none" /\ cur.answer # NotAsked =>
    /\ (cur.mxv = "ok") = SingleExpected
    /\ cur.mxv = "failed" =>
         /\ cur.category = "invalid_mx"
         /\ results.invalid_mx # <<>>
         /\ results.invalid_mx[Len(results.invalid_mx)] = input_emails[vi]
         /\ ~StepTaken("connect")
         /\ vret = NoResult

C23_Witness ==
  /\ prog = "verify"
  /\ cur.mxv = "failed"
  /\ Len(cur.answer.records) = 2
  /\ cur.category = "invalid_mx"
  /\ probes = 1

\* C24: DomainCheck succeeds exactly when the A query has an answer or, the
\* domain having no A record, the MX query has one; otherwise the address is
\* filed under invalid_domain.
C24_DomainCheck ==
  prog = "verify" /\ cur.dom # "none" /\ cur.a # "none" =>
    /\ (cur.dom = "ok") =
         (cur.a = "ok" \/ (cur.a = "NoAnswer" /\ cur.mx = "ok"))
    /\ cur.dom = "failed" =>
         /\ cur.category = "invalid_domain"
         /\ results.invalid_domain # <<>>
         /\ results.invalid_domain[Len(results.invalid_domain)] = input_emails[vi]

C24_Witness ==
  /\ prog = "verify" /\ vpc = "done"
  /\ cur.a = "NoAnswer" /\ cur.mx = "ok" /\ cur.dom = "ok"
  /\ Len(results.invalid_domain) = 1

\* The category verify_email files a status of verify_smtp under.
TerminalOf(status) ==
  CASE status = "valid" -> "valid"
    [] status = "over_quota" -> "over_quota"
    [] status = "insufficient_storage" -> "insufficient_storage"
    [] status = "error" -> "other_errors"

\* C25: the probe connects, sends MAIL FROM, then RCPT TO, in this order; RCPT
\* TO is never sent when MAIL FROM was rejected; the status of the probe
\* chooses the category: valid, over_quota, insufficient_storage, and
\* other_errors for a rejection or a transport error.
C25_ProbeOrder ==
  prog = "verify" =>
    /\ StepTaken("connect") =>
         \E n \in 1..3 : cur.steps = SubSeq(AllSteps, 1, 2 + n)
    /\ StepTaken("rcpt") => cur.mail = "accepted"
    /\ cur.mail \in {"rejected", "raised"} =>
         /\ ~StepTaken("rcpt")
         /\ vret = ProbeError
    /\ StepTaken("connect") /\ cur.category # "none" =>
         /\ vret.status \in Statuses
         /\ cur.category = TerminalOf(vret.status)
         /\ results[cur.category] # <<>>
         /\ results[cur.category][Len(results[cur.category])] = input_emails[vi]

C25_Witness ==
  /\ prog = "verify" /\ vpc = "done"
  /\ cur.mail = "rejected"
  /\ cur.category = "other_errors"
  /\ Len(results.over_quota) = 1

SixCounters ==
  stats.valid + stats.invalid_domain + stats.invalid_mx + stats.over_quota
    + stats.insufficient_storage + stats.other_errors

Categories == DOMAIN NoResults

\* C26: every address verify_email has processed is in exactly one of the six
\* result lists and has incremented exactly one counter, and after
\* verify_emails_from_file the six counters sum to the total.
C26_OneCategoryEach ==
  prog = "verify" /\ vpc \in {"idle", "done"} =>
    /\ SixCounters = vi
    /\ SumOver([c \in Categories |-> Len(results[c])], Categories) = vi
    /\ vpc = "done" => SixCounters = stats.total

\* The name of a host, without the dot that ends it in an MX record.
HostName(exchange) == SubSeq(exchange, 1, Len(exchange) - 1)

\* The candidates of the answer: the hosts its records name.
Candidates ==
  {HostName(net.answer.records[i].exchange) : i \in 1..Len(net.answer.records)}

\* The candidate of the lowest preference value, the first of the answer among
\* equals.
BestCandidate ==
  LET recs == net.answer.records
      i == CHOOSE i \in 1..Len(recs) :
             \A j \in 1..Len(recs) :
               /\ recs[j].preference >= recs[i].preference
               /\ j < i => recs[j].preference > recs[i].preference
  IN  HostName(recs[i].exchange)

TriedHosts == {tried[i].host : i \in 1..Len(tried)}

\* C27 as stated: when the connection to a candidate fails the next one in the
\* order of priority is tried, so a delivery that fails has tried them all.
C27_EveryCandidateTried ==
  prog = "connect" /\ gpc = "raised" /\ tried # <<>> =>
    Candidates \subseteq TriedHosts

\* C27: of several MX endpoints only the one of the lowest priority value (the
\* first in the answer among equals) is used: every connection is attempted to
\* it, and when it cannot be reached the delivery fails without another
\* endpoint being tried.
C27_OnlyBestEndpoint ==
  prog = "connect" /\ gpc \notin {"resolve", "unresolved"} =>
    /\ mx_host = BestCandidate
    /\ TriedHosts \subseteq {BestCandidate}

C27_Witness ==
  /\ prog = "connect" /\ gpc = "raised"
  /\ Cardinality(Candidates) = 2
  /\ net.answer.records[1].preference > net.answer.records[2].preference
  /\ TriedHosts = {HostName(Host2)}

TriedOf(family) ==
  {tried[i].index : i \in {j \in 1..Len(tried) : tried[j].family = family}}

Resolvable(info) == IF info.gaierror THEN {} ELSE 1..Len(info.addrs)

EntriesOf(family) ==
  {i \in 1..Len(connection_attempts) : connection_attempts[i].family = family}

FailureEntry(info) ==
  IF info.gaierror THEN "DNS: FAILED"
  ELSE IF info.addrs[1] = "timeout" THEN "connection: TIMEOUT"
  ELSE "connection: FAILED"

FailedAndSkipped ==
  {b \in connFail : b <= start_batch /\ attempts[b] >= 1}

\* C29 as stated: a batch that failed before the interruption is attempted
\* again by the resumed run, like a batch that was never attempted.
C29_FailedAttemptedAgain ==
  prog = "batch_sender" /\ runs >= 2 /\ pc = "done"
      /\ start_batch < Len(batches) =>
    \A b \in connFail : attempts[b] >= 1 => b > start_batch

\* C29: the resume knows the index of the last recorded batch and nothing of
\* outcomes. A run starts after the index it loaded: it attempts no batch up to
\* it, whether that batch was delivered or failed, and every batch after it,
\* whether an earlier run attempted that batch or not.
C29_ResumeByIndexOnly ==
  prog = "batch_sender" /\ runs >= 1 =>
    /\ pc = "loop" /\ batch_num = start_batch =>
         start_batch = last_ckpt.completed_batches
    /\ \A b \in DOMAIN attempts :
         /\ b <= start_batch => attempts[b] <= runs - 1
         /\ pc = "done" /\ b > start_batch => attempts[b] >= 1

C29_Witness ==
  /\ prog = "batch_sender" /\ runs = 2 /\ pc = "done"
  /\ start_batch < Len(batches)
  /\ FailedAndSkipped # {}
  /\ \A b \in FailedAndSkipped : attempts[b] = 1

\* q.join() has returned for the current domain: every batch put for it has been
\* marked done once, and the sentinels are in the queue.
JoinReturned ==
  /\ cpc = "join_threads"
  /\ \A id \in Enqueued(dom_i) : batch_log[id].dones = 1

AllExited == \A w \in Threads : workers[w].state = "exited"

\* C30: the dispatch of a domain terminates: once its batches are being put in
\* the queue, q.join() returns in the end with every batch marked done, every
\* worker then takes a sentinel and exits, and the coordinator goes on to the
\* next domain and reaches the end of the run.
C30_DispatchTerminates ==
  /\ (prog = "send" /\ cpc = "enqueue") ~> JoinReturned
  /\ JoinReturned ~> (cpc = "join_threads" /\ AllExited)
  /\ (cpc = "join_threads" /\ AllExited) ~> (cpc = "domain")
  /\ (prog = "send") ~> (cpc \in {"finished", "crashed"})

C30_Witness ==
  /\ prog = "send" /\ cpc = "finished"
  /\ \E id \in DOMAIN batch_log : batch_log[id].outcome = "smtp_failed"
  /\ \E id \in DOMAIN batch_log : batch_log[id].outcome = "conn_failed"
  /\ \A id \in DOMAIN batch_log : batch_log[id].dones = 1
  /\ Cardinality({i \in 1..Len(mx_log) : mx_log[i].resolved}) = 2

\* The threads inside a critical section. Neither script creates a lock
\* (threading is used for Thread only; there is no Lock, RLock or with block on
\* one), so no thread ever is.
LockHolders == {}

CounterStep == sent_count' # sent_count \/ failed_count' # failed_count

DomainsBegun == Cardinality({i \in 1..Len(mx_log) : mx_log[i].resolved})

SeqDelays ==
  prog = "batch_sender" =>
    /\ pc \in {"connect", "send", "quit", "save_open", "save_write", "delay"} =>
         waits = batch_num - start_batch
    /\ pc = "done" /\ Len(batches) > start_batch =>
         waits = Len(batches) - start_batch - 1

\* C32 as stated: a delay is taken between two consecutive batches of the
\* sequential sender, none after the last, and between two consecutive domain
\* groups of the threaded dispatcher.
C32_DelayBetweenUnits ==
  /\ SeqDelays
  /\ prog = "send" /\ cpc = "enqueue" => waits >= DomainsBegun - 1

\* C32: in a run of the sequential sender one delay is taken before every batch
\* but the first of the run, and none after the last batch; the threaded
\* dispatcher takes no delay at all, between batches or between domain groups.
C32_SequentialDelayOnly ==
  /\ SeqDelays
  /\ prog = "send" => waits = 0

C32_Witness ==
  \/ /\ prog = "batch_sender" /\ pc = "done"
     /\ start_batch = 0 /\ Len(batches) = 3 /\ waits = 2
  \/ /\ prog = "send" /\ cpc = "finished" /\ DomainsBegun = 2 /\ waits = 0

\* C33: when send_batch has returned, whatever failed in it, the statistics it
\* returns account for every address of the batch exactly once, and after a
\* full run that was not resumed the two global counters add up to the number
\* of addresses.
C33_BatchAccounted ==
  prog = "batch_sender" =>
    /\ pc = "save_open" =>
         batch_stats.sent + batch_stats.failed = Len(batches[CurBatch])
    /\ pc = "done" /\ runs = 1 =>
         sent_count + failed_count = Len(email_list)

InQueue(kind) == {i \in 1..Len(q) : q[i].kind = kind}

Exited == {w \in Threads : workers[w].state = "exited"}

\* C34: a sentinel is in the queue only after q.join() has returned, with every
\* batch of the domain marked done, so a worker exits only when no batch is
\* left in the queue; NUM_THREADS sentinels are put and every worker that has
\* exited has taken exactly one of them.
C34_SentinelsAfterBatches ==
  prog = "send" =>
    /\ InQueue("stop") # {} =>
         /\ cpc = "join_threads"
         /\ \A id \in Enqueued(dom_i) : batch_log[id].dones = 1
    /\ Exited # {} => cpc = "join_threads" /\ InQueue("batch") = {}
    /\ cpc = "join_threads" =>
         Cardinality(InQueue("stop")) + Cardinality(Exited) = NUM_THREADS

C34_Witness ==
  /\ prog = "send" /\ cpc = "join_threads"
  /\ Cardinality(Enqueued(dom_i)) = 2
  /\ \E id \in Enqueued(dom_i) : batch_log[id].outcome # "sent"
  /\ Cardinality(Exited) = 1 /\ Cardinality(InQueue("stop")) = NUM_THREADS - 1

Alive == {w \in Threads : workers[w].state \notin {"none", "exited"}}

Connections == {w \in Threads : workers[w].conn}

C36_RoundTrip ==
  (prog = "progress" /\ fpc = "done") =>
    ret = [completed_batches |-> args.completed_batches,
           sent |-> sent_count,
           failed |-> failed_count]

C36_Witness ==
  /\ prog = "progress" /\ fpc = "done"
  /\ args = [completed_batches |-> 12, total_batches |-> 105]
  /\ sent_count = 100 /\ failed_count = 9
  /\ readlines(progress_file)[1] =
       <<"C", "o", "m", "p", "l", "e", "t", "e", "d", ":", " ",
         "1", "2", "/", "1", "0", "5", "\n">>
  /\ ret.completed_batches = 12

\* The try block of load_progress raises on this file.
CannotBeParsed(file) ==
  /\ file.exists
  /\ \E i \in 1..3 : Field(readlines(file), i, i = 1).raised

ResumedLaunch ==
  /\ prog = "batch_sender" /\ runs >= 1 /\ runs' = runs + 1
  /\ ~progress_file.exists \/ CannotBeParsed(progress_file)

\* C37: a resumed run that finds the checkpoint file missing or not parseable
\* (a file cut short of its three values) does not fail: it enters the loop at
\* the first batch with both counters at zero, and when it is done it has gone
\* through every batch.
C37_UnreadableStartsOver ==
  /\ [][ResumedLaunch =>
          /\ pc' = "loop"
          /\ start_batch' = 0 /\ batch_num' = 0
          /\ sent_count' = 0 /\ failed_count' = 0
          /\ batches' = create_batches(email_list, batch_size)]_vars
  /\ [](prog = "batch_sender" /\ runs >= 2 /\ start_batch = 0 /\ pc = "done" =>
          /\ batch_num = Len(batches)
          /\ \A b \in 1..Len(batches) : attempts[b] >= 1)

C37_Witness ==
  /\ prog = "batch_sender" /\ runs = 2 /\ pc = "done"
  /\ start_batch = 0 /\ Len(batches) = 2
  /\ \E b \in 1..2 : attempts[b] = 2

\* A step in which a verify_email call returns: at the format test, or from
\* one of the three checks.
VerifyReturns ==
  /\ vpc' = "idle"
  /\ (vpc = "idle" /\ vi' = vi + 1) \/ vpc \in {"domain", "mx", "returned"}

\* C38: after any sequence of verify_email calls each of the six category
\* counters is the length of that category's result list, and a call returns
\* True (status "valid") exactly when it appended its address to 'valid'.
C38_CountersMatchResults ==
  /\ [](prog = "verify" => \A c \in Categories : stats[c] = Len(results[c]))
  /\ [][prog = "verify" =>
          IF VerifyReturns
          THEN (cur'.returned = "valid") <=>
                 (results'.valid = Append(results.valid, input_emails[vi']))
          ELSE results'.valid = results.valid]_vars

C38_Witness ==
  /\ prog = "verify" /\ vpc = "done"
  /\ stats.valid = 1 /\ results.valid = <<Addr("a", DomX)>>
  /\ stats.other_errors = 1 /\ Len(results.other_errors) = 1
  /\ cur.returned = "error"

MatchesQuota(code, text) == code = 552 \/ KeywordsIn(text).quota

MatchesStorage(code, text) == code = 452 \/ KeywordsIn(text).storage

\* C39: a reply that matches the quota rule and the storage rule at once (452
\* with a quota keyword, 552 with a storage, disk or insufficient keyword, a
\* text with keywords of both kinds) is classified over_quota: the quota test
\* comes first.
C39_QuotaFirst ==
  \A i \in 1..Len(seen) :
    MatchesQuota(seen[i].code, seen[i].message)
        /\ MatchesStorage(seen[i].code, seen[i].message) =>
      seen[i].status = "over_quota"

C39_Witness ==
  /\ Len(seen) = 2
  /\ seen[1].code = 452 /\ KeywordsIn(seen[1].message).quota
  /\ ~KeywordsIn(seen[1].message).storage
  /\ seen[1].status = "over_quota"
  /\ seen[2].code = 552 /\ KeywordsIn(seen[2].message).storage
  /\ ~KeywordsIn(seen[2].message).quota
  /\ seen[2].status = "over_quota"

====
